---- MODULE Spec2Model ----
(***************************************************************************)
(* LoroNostrProvider (src/unnamed/part_000): the engine that bridges one   *)
(* Loro document and a pool of Nostr relays.  The host is single-threaded  *)
(* JavaScript: every action below is one task (a public call, a timer      *)
(* expiry, a relay callback, or the continuation of an await).             *)
(***************************************************************************)
EXTENDS Integers, Sequences, FiniteSets, TLC

\* NOSTR_KINDS (src/src/App.tsx)
DOCUMENT_META == 30078
DOCUMENT_SNAPSHOT == 30079
CRDT_UPDATE == 21000
PRESENCE == 21001
PING == 21002
PONG == 21003

\* Bounds of the model.
MaxLocal == 2
MaxPending == 2
MaxInflight == 1
MaxSubs == 1
NumRelays == 2
MaxCallbacks == 1
MaxPings == 2
MaxTime == 2
MaxDocCalls == 2
MaxConnects == 2
NumFreshDocs == 2

\* The engine's own identity (getPublicKey(privateKey)) and its room.
publicKey == "me"
docId == "room"
relays == 1..NumRelays

NoVersion == [none |-> TRUE]
NoSince == -1

\* The event names of ProviderEvents, and the callbacks a host may register.
EventTypes == {"connected", "disconnected", "sync", "update", "awareness", "error"}
Callbacks == 1..MaxCallbacks

VARIABLES
  doc,                  \* LoroDoc: the operations it holds, local and imported
  subscriptionId,       \* "active" or "null"
  pendingUpdates,       \* length of the pendingUpdates array (elements are never read)
  batchTimer,           \* TRUE when the batchTimer handle is non-null
  isConnected,
  lastSyncTimestamp,
  awareness,            \* Map<pubkey, Participant> in insertion order
  lastExportedVersion,  \* NoVersion or a version of the document
  syncOnConnect,        \* options.syncOnConnect
  timers,               \* host timer queue: scheduled flush timeouts
  inflight,             \* publishes awaiting Promise.allSettled
  subs,                 \* open subscribeMany pairs of the pool: filter and known ids
  pc,                   \* position of the connect() / fetchHistory() call in progress
  fetched,              \* snapshotEvents held across the second querySync
  store,                \* useNostrStore: keys, relays, userName
  eventListeners,       \* Map<event name, Set<callback>>, each set in insertion order
  metrics,              \* SyncMetrics: the latency measurements and their summary
  now,                  \* Date.now()
  documents,            \* useDocuments: the recent-document list
  relay,                \* the events a relay has accepted from this engine
  peer,                 \* a second engine on the same room, with another key
  notified,             \* per event id: `update` / `sync{snapshot}` notifications so far
  hist,                 \* what has happened so far: destroy() returned, connect() rejected,
                        \* useDocuments mounted, its calls so far
  calls                 \* the calls made by the last task, in order

vars ==
  <<doc, subscriptionId, pendingUpdates, batchTimer, isConnected, lastSyncTimestamp,
    awareness, lastExportedVersion, syncOnConnect, timers, inflight, subs, pc,
    fetched, store, eventListeners, metrics, now, documents, relay, peer, notified,
    hist, calls>>

----------------------------------------------------------------------------
\* Events (NostrEvent) and the envelope or presence data in their content.

\* A presence content without a color.
NoColor == [none |-> TRUE]

\* fault: "decode" when JSON.parse or base64ToBytes throws on the content,
\* "import" when the document rejects the payload.  name and color are read
\* from presence content only.
Ev(id, pk, kind, t, room, fault, cursor) ==
  [id |-> id, pubkey |-> pk, kind |-> kind, created_at |-> t, docId |-> room,
   fault |-> fault, cursor |-> cursor, name |-> pk, color |-> NoColor]

U1 == Ev(1, "p1", CRDT_UPDATE, 1, "room", "none", 0)
S1 == Ev(2, "p2", DOCUMENT_SNAPSHOT, 2, "room", "none", 0)
U2 == Ev(3, "p2", CRDT_UPDATE, 3, "room", "none", 0)
U3 == Ev(4, "p1", CRDT_UPDATE, 3, "room", "none", 0)
S2 == Ev(5, "p1", DOCUMENT_SNAPSHOT, 1, "room", "none", 0)
UMe == Ev(6, "me", CRDT_UPDATE, 2, "room", "none", 0)
SMe == Ev(7, "me", DOCUMENT_SNAPSHOT, 1, "room", "none", 0)
UOther == Ev(8, "p1", CRDT_UPDATE, 2, "other", "none", 0)
SOther == Ev(9, "p2", DOCUMENT_SNAPSHOT, 1, "other", "none", 0)
UBad == Ev(10, "p1", CRDT_UPDATE, 2, "room", "decode", 0)
UInv == Ev(11, "p2", CRDT_UPDATE, 1, "room", "import", 0)
P1a == Ev(12, "p1", PRESENCE, 1, "room", "none", 1)
P1b == Ev(13, "p1", PRESENCE, 2, "room", "none", 2)
P2a ==
  [Ev(14, "p2", PRESENCE, 1, "room", "none", 3)
     EXCEPT !.color = [hue |-> 10, saturation |-> 70, lightness |-> 50]]
PMe == Ev(15, "me", PRESENCE, 2, "room", "none", 4)
PBad == Ev(16, "p2", PRESENCE, 3, "room", "decode", 5)
SBad == Ev(17, "p2", DOCUMENT_SNAPSHOT, 1, "room", "import", 0)
EPing == Ev(18, "p1", PING, 1, "room", "none", 0)
EPong == Ev(19, "p2", PONG, 2, "room", "none", 0)
EMeta == Ev(20, "p1", DOCUMENT_META, 3, "room", "none", 0)
SDec == Ev(21, "p1", DOCUMENT_SNAPSHOT, 2, "room", "decode", 0)

AllEvents ==
  {U1, S1, U2, U3, S2, UMe, SMe, UOther, SOther, UBad, UInv, P1a, P1b, P2a, PMe, PBad,
   SBad, EPing, EPong, EMeta, SDec}
EventIds == {e.id : e \in AllEvents}

----------------------------------------------------------------------------
\* The state as one record, so that a handler is a function from state to state.

St ==
  [doc |-> doc, subscriptionId |-> subscriptionId, pendingUpdates |-> pendingUpdates,
   batchTimer |-> batchTimer, isConnected |-> isConnected,
   lastSyncTimestamp |-> lastSyncTimestamp, awareness |-> awareness,
   lastExportedVersion |-> lastExportedVersion, syncOnConnect |-> syncOnConnect,
   timers |-> timers, inflight |-> inflight, subs |-> subs, pc |-> pc,
   fetched |-> fetched, store |-> store, eventListeners |-> eventListeners,
   metrics |-> metrics, now |-> now, documents |-> documents, relay |-> relay,
   peer |-> peer,
   notified |-> notified,
   hist |-> hist, calls |-> <<>>]

Commit(s) ==
  /\ doc' = s.doc
  /\ subscriptionId' = s.subscriptionId
  /\ pendingUpdates' = s.pendingUpdates
  /\ batchTimer' = s.batchTimer
  /\ isConnected' = s.isConnected
  /\ lastSyncTimestamp' = s.lastSyncTimestamp
  /\ awareness' = s.awareness
  /\ lastExportedVersion' = s.lastExportedVersion
  /\ syncOnConnect' = s.syncOnConnect
  /\ timers' = s.timers
  /\ inflight' = s.inflight
  /\ subs' = s.subs
  /\ pc' = s.pc
  /\ fetched' = s.fetched
  /\ store' = s.store
  /\ eventListeners' = s.eventListeners
  /\ metrics' = s.metrics
  /\ now' = s.now
  /\ documents' = s.documents
  /\ relay' = s.relay
  /\ peer' = s.peer
  /\ notified' = s.notified
  /\ hist' = s.hist
  /\ calls' = s.calls

Call(s, op, a) == [s EXCEPT !.calls = Append(@, [op |-> op, a |-> a])]

\* A faulty Max: the second argument wins.
MaxLatest(a, b) == b

\* Math.max
Max(a, b) == IF a >= b THEN a ELSE b
Min(a, b) == IF a <= b THEN a ELSE b

\* forEach over the callbacks registered for one event name.
RECURSIVE InvokeAll(_, _, _, _)
InvokeAll(s, cbs, ev, data) ==
  IF cbs = <<>>
    THEN s
    ELSE InvokeAll(Call(s, "invoke", [cb |-> Head(cbs), ev |-> ev, data |-> data]),
                   Tail(cbs), ev, data)

\* emit(event, data): every callback registered for the event is called.
emit(s, ev, data) ==
  InvokeAll(Call(s, "emit", [ev |-> ev, data |-> data]), s.eventListeners[ev], ev, data)

----------------------------------------------------------------------------
\* The document (loro-crdt, a collaborator): its operations, version and export.

EmptyDoc == [local |-> 0, remote |-> {}]
Version(d) == d
Export(d, from) ==
  [lo |-> from.local, hi |-> d.local, remote |-> d.remote \ from.remote]
ByteLength(update) == (update.hi - update.lo) + Cardinality(update.remote)
\* The operations an event carries: those of the published delta, or, for an
\* event of the fixed set, one operation of its own.
Payload(event) == IF "ops" \in DOMAIN event THEN event.ops ELSE {event.id}

----------------------------------------------------------------------------
\* Outbound: document listener, batching, flush, publish.

\* A faulty queueUpdate: arms a timer on every enqueue.
queueUpdateRearm(s, update) ==
  Call([s EXCEPT !.pendingUpdates = @ + 1, !.batchTimer = TRUE, !.timers = @ + 1],
       "setTimeout", 0)

\* queueUpdate: push, and arm the batch timer if none is armed.
queueUpdate(s, update) ==
  LET s1 == [s EXCEPT !.pendingUpdates = @ + 1]
  IN IF ~s1.batchTimer
       THEN Call([s1 EXCEPT !.batchTimer = TRUE, !.timers = @ + 1], "setTimeout", 0)
       ELSE s1

\* A faulty IsLocalChange: every change counts as local.
IsLocalChangeAlways(by) == TRUE

\* The test of setupDocumentListener's callback on the change's origin.
IsLocalChange(by) == by # "import"

\* The callback registered with doc.subscribe.
docListener(s, by) ==
  IF IsLocalChange(by)
    THEN LET update == Export(s.doc, EmptyDoc)
         IN IF ByteLength(update) > 0 THEN queueUpdate(s, update) ELSE s
    ELSE s

\* pool.publish(relays, event) followed by the await of Promise.allSettled.
poolPublish(s, kind, payload) ==
  Call([s EXCEPT !.inflight = Append(@, [kind |-> kind, payload |-> payload])],
       "publish", [kind |-> kind, payload |-> payload])

\* publishUpdate up to its await.
publishUpdate(s, update) == poolPublish(s, CRDT_UPDATE, update)

\* A faulty ShouldPublish: publishes whatever was exported.
ShouldPublishAlways(update) == TRUE

\* The guard of flushUpdates on the exported delta.
ShouldPublish(update) == ByteLength(update) > 0

\* A faulty FlushExport: exports the whole history on every flush.
FlushExportFull(s) == Export(s.doc, EmptyDoc)

\* A faulty FlushExport: exports from the current version, an empty delta.
FlushExportNothing(s) == Export(s.doc, s.doc)

\* The delta flushUpdates exports.
FlushExport(s) ==
  IF s.lastExportedVersion # NoVersion
    THEN Export(s.doc, s.lastExportedVersion)
    ELSE Export(s.doc, EmptyDoc)

\* A faulty FlushMarker: the marker stays at the empty version.
FlushMarkerEmpty(s) == Version(EmptyDoc)

\* The version marker flushUpdates stores.
FlushMarker(s) == Version(s.doc)

\* A faulty flushUpdates: the timer handle is kept.
flushUpdatesKeepTimer(s) ==
  IF s.pendingUpdates = 0
    THEN s
    ELSE LET update == FlushExport(s)
             s1 == Call(s, "export", [from |-> s.lastExportedVersion, update |-> update])
             s2 == [s1 EXCEPT !.lastExportedVersion = FlushMarker(s),
                              !.pendingUpdates = 0]
         IN IF ShouldPublish(update) THEN publishUpdate(s2, update) ELSE s2

\* flushUpdates up to its await.
flushUpdates(s) ==
  IF s.pendingUpdates = 0
    THEN s
    ELSE LET update == FlushExport(s)
             s1 == Call([s EXCEPT !.batchTimer = FALSE], "export",
                        [from |-> s.lastExportedVersion, update |-> update])
             s2 == [s1 EXCEPT !.lastExportedVersion = FlushMarker(s),
                              !.pendingUpdates = 0]
         IN IF ShouldPublish(update) THEN publishUpdate(s2, update) ELSE s2

\* A faulty PublishSucceeded: every relay must accept.
PublishSucceededAll(results) == \A r \in DOMAIN results : results[r] = "fulfilled"

\* Whether the awaited publish results count as a success.
PublishSucceeded(results) == \E r \in DOMAIN results : results[r] = "fulfilled"

\* The continuation of publishUpdate / publishSnapshot / updatePresence after
\* Promise.allSettled, for the in-flight publish at index i.
publishSettled(s, i, results) ==
  LET p == s.inflight[i]
      s1 == [s EXCEPT !.inflight = SubSeq(@, 1, i - 1) \o SubSeq(@, i + 1, Len(@))]
      s2 == Call(s1, "settled", [kind |-> p.kind, results |-> results])
      s3 == CASE p.kind = CRDT_UPDATE ->
                   IF ~PublishSucceeded(results)
                     THEN emit(s2, "error", [message |-> "Failed to publish update"])
                     ELSE s2
              [] p.kind = DOCUMENT_SNAPSHOT ->
                   IF ~PublishSucceeded(results)
                     THEN emit(s2, "error", [message |-> "Failed to publish snapshot"])
                     ELSE emit(s2, "sync", [status |-> "synced", snapshot |-> TRUE])
              [] OTHER -> s2
  IN Call(s3, "return", [kind |-> p.kind, promise |-> "resolved"])

----------------------------------------------------------------------------
\* A second engine and the relay between the two.

peerKey == "p1"

\* Local operation k of this engine, as it appears in another document.
OpOf(k) == [by |-> publicKey, op |-> k]

\* The event publishUpdate signs for an exported delta; its id stands for the
\* hash of its content.
UpdateEvent(s, update) ==
  [id |-> <<update.lo, update.hi>>, pubkey |-> publicKey, kind |-> CRDT_UPDATE,
   created_at |-> s.now, docId |-> docId, fault |-> "none",
   ops |-> {OpOf(k) : k \in (update.lo + 1)..update.hi} \cup update.remote]

\* The ids of the events this engine can publish.
UpdateIds == {<<lo, hi>> : lo \in 0..MaxLocal, hi \in 0..MaxLocal}

\* The second engine after construction: the fields its inbound path uses.
NoPeer ==
  [connected |-> FALSE, known |-> {}, doc |-> EmptyDoc, lastSyncTimestamp |-> 0,
   eventListeners |-> [ev \in EventTypes |-> <<>>],
   notified |-> [i \in UpdateIds |-> 0], calls |-> <<>>]

----------------------------------------------------------------------------
\* The latency probe and the metrics it feeds.

\* No time yet: receivedAt and latency of a pending measurement, the summary
\* figures before the first completed one.
NoTime == -1

\* The metrics after construction and after resetMetrics().
NoMetrics ==
  [measurements |-> <<>>, lastLatency |-> NoTime, minLatency |-> NoTime,
   maxLatency |-> NoTime]

\* The identifier of the next probe: one no earlier probe carries.
NextPingId(s) == Len(s.metrics.measurements) + 1

\* ping(): publish one PING event with a fresh identifier and record the
\* pending measurement.
ping(s) ==
  LET id == NextPingId(s)
      s1 == Call(s, "ping", id)
      s2 == [s1 EXCEPT !.metrics.measurements =
                         Append(@, [id |-> id, sentAt |-> s.now,
                                    receivedAt |-> NoTime, latency |-> NoTime])]
  IN poolPublish(s2, PING, [id |-> id, sentAt |-> s.now])

\* The summary figures after one more latency.
Summary(m, latency) ==
  [m EXCEPT !.lastLatency = latency,
            !.minLatency = IF @ = NoTime THEN latency ELSE Min(@, latency),
            !.maxLatency = IF @ = NoTime THEN latency ELSE Max(@, latency)]

\* A faulty completeMeasurement: an answered measurement is completed again.
completeMeasurementAgain(s, id) ==
  LET ms == s.metrics.measurements
      idx == {i \in 1..Len(ms) : ms[i].id = id}
  IN IF idx = {}
       THEN s
       ELSE LET i == CHOOSE i \in idx : TRUE
                latency == s.now - ms[i].sentAt
                s1 == [s EXCEPT !.metrics.measurements[i] =
                                  [@ EXCEPT !.receivedAt = s.now, !.latency = latency]]
                s2 == [s1 EXCEPT !.metrics = Summary(@, latency)]
            IN Call(s2, "emit", [ev |-> "pong", data |-> [id |-> id, latency |-> latency]])

\* The pending measurement of a probe is completed: received now, latency the
\* elapsed time; `pong` is emitted with it.
completeMeasurement(s, id) ==
  LET ms == s.metrics.measurements
      idx == {i \in 1..Len(ms) : ms[i].id = id /\ ms[i].receivedAt = NoTime}
  IN IF idx = {}
       THEN s
       ELSE LET i == CHOOSE i \in idx : TRUE
                latency == s.now - ms[i].sentAt
                s1 == [s EXCEPT !.metrics.measurements[i] =
                                  [@ EXCEPT !.receivedAt = s.now, !.latency = latency]]
                s2 == [s1 EXCEPT !.metrics = Summary(@, latency)]
            IN Call(s2, "emit", [ev |-> "pong", data |-> [id |-> id, latency |-> latency]])

\* Whether a received probe event answers a ping of this engine: a PONG, or
\* the engine's own PING echoed by a relay.
AnswersPing(event) ==
  \/ event.kind = PONG
  \/ event.kind = PING /\ event.pubkey = publicKey

\* The dispatch of a received PING or PONG event.
handleProbe(s, event) ==
  LET s1 == Call(s, "probe", event)
  IN IF AnswersPing(event) THEN completeMeasurement(s1, event.pingId) ELSE s1

----------------------------------------------------------------------------
\* Inbound: import, dispatch, presence.

\* doc.import(data): the document takes the operations and notifies its
\* subscribers of a change whose origin is "import".
docImport(s, event) ==
  LET s1 == Call(s, "import", event)
      s2 == [s1 EXCEPT !.doc.remote = @ \cup Payload(event)]
  IN IF s2.doc # s.doc THEN docListener(s2, "import") ELSE s2

Notify(s, event) == [s EXCEPT !.notified[event.id] = Min(@ + 1, 2)]

\* A faulty applyUpdate: a failed import is reported as an `error` and moves
\* lastSyncTimestamp.
applyUpdateReport(s, event) ==
  IF event.fault = "decode"
    THEN s
    ELSE IF event.fault = "import"
      THEN emit([Call(s, "import", event)
                   EXCEPT !.lastSyncTimestamp = Max(@, event.created_at)],
                "error", [message |-> "Failed to apply update"])
      ELSE LET s1 == docImport(s, event)
               s2 == [s1 EXCEPT !.lastSyncTimestamp = Max(@, event.created_at)]
           IN Notify(emit(s2, "update",
                          [from |-> event.pubkey, timestamp |-> event.created_at,
                           id |-> event.id]), event)

applyUpdate(s, event) ==
  IF event.fault = "decode"
    THEN s
    ELSE IF event.fault = "import"
      THEN Call(s, "import", event)
      ELSE LET s1 == docImport(s, event)
               s2 == [s1 EXCEPT !.lastSyncTimestamp = Max(@, event.created_at)]
           IN Notify(emit(s2, "update",
                          [from |-> event.pubkey, timestamp |-> event.created_at,
                           id |-> event.id]), event)

applySnapshot(s, event) ==
  IF event.fault = "decode"
    THEN s
    ELSE IF event.fault = "import"
      THEN Call(s, "import", event)
      ELSE LET s1 == docImport(s, event)
               s2 == [s1 EXCEPT !.lastSyncTimestamp = Max(@, event.created_at)]
           IN Notify(emit(s2, "sync",
                          [status |-> "synced", snapshot |-> TRUE, id |-> event.id]),
                     event)

\* A faulty MapSet: appends without looking for the key.
MapSetAppend(m, participant) == Append(m, participant)

\* Map.set: replace in place when the key exists, else append.
MapSet(m, participant) ==
  IF \E i \in 1..Len(m) : m[i].pubkey = participant.pubkey
    THEN [i \in 1..Len(m) |->
            IF m[i].pubkey = participant.pubkey THEN participant ELSE m[i]]
    ELSE Append(m, participant)

\* The UTF-16 code units of the identities of this model.
CharCodes(seed) ==
  CASE seed = "me" -> <<109, 101>>
    [] seed = "p1" -> <<112, 49>>
    [] seed = "p2" -> <<112, 50>>

\* generateColor's loop: hash = charCode + ((hash << 5) - hash).  For seeds
\* this short the shift stays within 32 bits.
RECURSIVE ColorHash(_, _)
ColorHash(codes, hash) ==
  IF codes = <<>>
    THEN hash
    ELSE ColorHash(Tail(codes), Head(codes) + ((hash * 32) - hash))

\* generateColor: Math.abs(hash % 360) as hue, fixed saturation and lightness.
generateColor(seed) ==
  LET hash == ColorHash(CharCodes(seed), 0)
      abs == IF hash < 0 THEN 0 - hash ELSE hash
  IN [hue |-> abs % 360, saturation |-> 70, lightness |-> 50]

handlePresence(s, event) ==
  IF event.fault = "decode"
    THEN s
    ELSE LET participant ==
               [pubkey |-> event.pubkey, name |-> event.name,
                color |-> IF event.color # NoColor
                            THEN event.color ELSE generateColor(event.pubkey),
                cursor |-> event.cursor, lastSeen |-> event.created_at]
             s1 == Call([s EXCEPT !.awareness = MapSet(@, participant)],
                        "ingest", event)
         IN emit(s1, "awareness", [participants |-> s1.awareness])

\* A faulty handleEvent: a kind it does not know is applied as an update.
handleEventDefault(s, event) ==
  IF event.pubkey = publicKey
    THEN s
    ELSE CASE event.kind = DOCUMENT_SNAPSHOT -> applySnapshot(s, event)
           [] event.kind = PRESENCE -> handlePresence(s, event)
           [] OTHER -> applyUpdate(s, event)

\* The guard at the top of handleEvent.
IsOwnEvent(event) == event.pubkey = publicKey

handleEvent(s, event) ==
  IF IsOwnEvent(event)
    THEN s
    ELSE CASE event.kind = CRDT_UPDATE -> applyUpdate(s, event)
           [] event.kind = DOCUMENT_SNAPSHOT -> applySnapshot(s, event)
           [] event.kind = PRESENCE -> handlePresence(s, event)
           [] OTHER -> s

\* handleEvent of the engine constructed with the second key.
peerHandleEvent(b, event) ==
  IF event.pubkey = peerKey
    THEN b
    ELSE CASE event.kind = CRDT_UPDATE -> applyUpdate(b, event)
           [] event.kind = DOCUMENT_SNAPSHOT -> applySnapshot(b, event)
           [] OTHER -> b

\* The presence content updatePresence signs.
PresenceContent(data) ==
  [name |-> data.name, cursor |-> data.cursor, color |-> generateColor(publicKey)]

\* A faulty updatePresence: the own participant is put into the awareness map.
updatePresenceLocal(s, data) ==
  poolPublish([Call(s, "updatePresence", data)
                 EXCEPT !.awareness = MapSet(@, [pubkey |-> publicKey, name |-> data.name,
                                                 color |-> generateColor(publicKey),
                                                 cursor |-> data.cursor, lastSeen |-> 0])],
              PRESENCE, PresenceContent(data))

\* updatePresence up to its await.
updatePresence(s, data) ==
  poolPublish(Call(s, "updatePresence", data), PRESENCE, PresenceContent(data))

\* getAwareness
getAwareness == awareness

----------------------------------------------------------------------------
\* History reconciliation (fetchHistory after its two queries).

\* Array.prototype.sort((a, b) => a.created_at - b.created_at): stable.
RECURSIVE InsertSorted(_, _)
InsertSorted(sorted, e) ==
  IF sorted = <<>>
    THEN <<e>>
    ELSE IF Head(sorted).created_at <= e.created_at
      THEN <<Head(sorted)>> \o InsertSorted(Tail(sorted), e)
      ELSE <<e>> \o sorted

RECURSIVE SortByCreatedAt(_)
SortByCreatedAt(events) ==
  IF events = <<>>
    THEN <<>>
    ELSE InsertSorted(SortByCreatedAt(SubSeq(events, 1, Len(events) - 1)),
                      events[Len(events)])

\* events.find(e => e.kind === DOCUMENT_SNAPSHOT): <<>> or the first one.
FindSnapshot(events) ==
  LET snaps == SelectSeq(events, LAMBDA e : e.kind = DOCUMENT_SNAPSHOT)
  IN IF snaps = <<>> THEN <<>> ELSE <<Head(snaps)>>

\* A faulty HistoryOrder: the fetched events are left in array order.
HistoryOrderUnsorted(snapshotEvents, updateEvents) == snapshotEvents \o updateEvents

\* The order in which the loop over the fetched events visits them.
HistoryOrder(snapshotEvents, updateEvents) ==
  SortByCreatedAt(snapshotEvents \o updateEvents)

RECURSIVE applyUpdates(_, _)
applyUpdates(s, events) ==
  IF events = <<>>
    THEN s
    ELSE applyUpdates(IF Head(events).kind = CRDT_UPDATE
                        THEN applyUpdate(s, Head(events))
                        ELSE s,
                      Tail(events))

\* A faulty reconcile: a fetched event that cannot be decoded or imported
\* aborts the reconciliation with an error.
reconcileAbort(s, snapshotEvents, updateEvents) ==
  LET events == HistoryOrder(snapshotEvents, updateEvents)
      todo == FindSnapshot(events) \o SelectSeq(events, LAMBDA e : e.kind = CRDT_UPDATE)
      s0 == Call(s, "querySync", [snapshotEvents |-> snapshotEvents,
                                  updateEvents |-> updateEvents])
  IN IF \E i \in 1..Len(todo) : todo[i].fault # "none"
       THEN emit(s0, "error", [message |-> "Failed to fetch history"])
       ELSE emit(applyUpdates(IF FindSnapshot(events) # <<>>
                                THEN applySnapshot(s0, FindSnapshot(events)[1])
                                ELSE s0, events),
                 "sync", [status |-> "synced"])

\* fetchHistory from the return of the second query to its end.  The awaits of
\* applySnapshot and applyUpdate complete without leaving the task.
reconcile(s, snapshotEvents, updateEvents) ==
  LET events == HistoryOrder(snapshotEvents, updateEvents)
      snapshot == FindSnapshot(events)
      s0 == Call(s, "querySync", [snapshotEvents |-> snapshotEvents,
                                  updateEvents |-> updateEvents])
      s1 == IF snapshot # <<>> THEN applySnapshot(s0, snapshot[1]) ELSE s0
      s2 == applyUpdates(s1, events)
  IN emit(s2, "sync", [status |-> "synced"])

\* The end of connect(): its promise settles.
connectReturn(s, promise) == Call(s, "connectReturn", promise)

\* A faulty connectCatch: the error is rethrown without a notification.
connectCatchQuiet(s) == connectReturn(s, "rejected")

\* The catch of connect(): one error notification, and the error is rethrown.
connectCatch(s) ==
  connectReturn(emit(s, "error", [message |-> "Connection failed"]), "rejected")

\* A faulty fetchFailed: the error of the query reaches connect()'s catch.
fetchFailedRethrow(s) ==
  connectCatch(emit(s, "error", [message |-> "Failed to fetch history"]))

\* The catch of fetchHistory: one error notification, nothing rethrown, so the
\* await in connect() completes and connect() resolves.
fetchFailed(s) ==
  connectReturn(emit(s, "error", [message |-> "Failed to fetch history"]), "resolved")

\* A faulty SyncsOnConnect: history is fetched whatever the option says.
SyncsOnConnectAlways(s) == TRUE

\* The test of connect() on options.syncOnConnect.
SyncsOnConnect(s) == s.syncOnConnect

----------------------------------------------------------------------------
\* Lifecycle.

\* subscribe(): the document and presence subscribeMany calls.
\* A faulty subscribe: the document filter never carries a lower bound.
subscribeUnbounded(s) ==
  LET s0 == Call(s, "subscribeMany",
                 [kinds |-> {CRDT_UPDATE, DOCUMENT_SNAPSHOT}, since |-> NoSince])
      s1 == Call(s0, "subscribeMany", [kinds |-> {PRESENCE}, sinceAgo |-> 60])
  IN [s1 EXCEPT !.subs = Append(@, [since |-> NoSince, known |-> {}, eose |-> FALSE]),
                !.subscriptionId = "active"]

subscribe(s) ==
  LET since == IF s.lastSyncTimestamp = 0 THEN NoSince ELSE s.lastSyncTimestamp
      s0 == Call(s, "subscribeMany",
                 [kinds |-> {CRDT_UPDATE, DOCUMENT_SNAPSHOT}, since |-> since])
      s1 == Call(s0, "subscribeMany", [kinds |-> {PRESENCE}, sinceAgo |-> 60])
  IN [s1 EXCEPT !.subs = Append(@, [since |-> since, known |-> {}, eose |-> FALSE]),
                !.subscriptionId = "active"]

\* A faulty disconnect: the awareness map is emptied.
disconnectEvict(s) ==
  LET s1 == IF s.subscriptionId # "null"
              THEN Call([s EXCEPT !.subs = <<>>, !.subscriptionId = "null"], "close", 0)
              ELSE s
      s2 == IF s1.batchTimer
              THEN Call([s1 EXCEPT !.batchTimer = FALSE, !.timers = @ - 1],
                        "clearTimeout", 0)
              ELSE s1
      s3 == IF s2.pendingUpdates > 0 THEN flushUpdates(s2) ELSE s2
  IN emit([s3 EXCEPT !.isConnected = FALSE, !.awareness = <<>>], "disconnected", 0)

\* disconnect()
disconnect(s) ==
  LET s0 == Call(s, "disconnect", 0)
      s1 == IF s0.subscriptionId # "null"
              THEN Call([s0 EXCEPT !.subs = <<>>, !.subscriptionId = "null"],
                        "close", 0)
              ELSE s0
      s2 == IF s1.batchTimer
              THEN Call([s1 EXCEPT !.batchTimer = FALSE, !.timers = @ - 1],
                        "clearTimeout", 0)
              ELSE s1
      s3 == IF s2.pendingUpdates > 0 THEN flushUpdates(s2) ELSE s2
  IN emit([s3 EXCEPT !.isConnected = FALSE], "disconnected", 0)

\* on(event, callback): Set.add, so a callback is registered once per event.
on(s, ev, cb) ==
  IF \E i \in 1..Len(s.eventListeners[ev]) : s.eventListeners[ev][i] = cb
    THEN s
    ELSE [s EXCEPT !.eventListeners[ev] = Append(@, cb)]

\* off(event, callback): Set.delete
off(s, ev, cb) ==
  [s EXCEPT !.eventListeners[ev] = SelectSeq(@, LAMBDA c : c # cb)]

\* eventListeners.clear()
ListenersClear(s) == [s EXCEPT !.eventListeners = [ev \in EventTypes |-> <<>>]]

\* A faulty destroy: the listeners stay registered.
destroyKeepListeners(s) == disconnect(Call(s, "destroy", 0))

\* destroy(): disconnect, then drop every listener.
destroy(s) == ListenersClear(disconnect(Call(s, "destroy", 0)))

\* The registrations held in the listener map.
Registrations(s) ==
  {r \in [ev : EventTypes, cb : Callbacks] :
     \E i \in 1..Len(s.eventListeners[r.ev]) : s.eventListeners[r.ev][i] = r.cb}

----------------------------------------------------------------------------
\* useNostrStore (src/src/lib/store.ts): the signing keys, the relay list and
\* the user name.  A string is a sequence of one-character strings.

NoKeys == [none |-> TRUE]
DEFAULT_RELAYS == <<"wss://relay.damus.io", "wss://nos.lol", "wss://nostr-pub.wellorder.net/">>

\* The length in bytes of a secret key that getPublicKey accepts.
SecretKeyBytes == 32

NaN == -1
HexDigits == <<"0", "1", "2", "3", "4", "5", "6", "7", "8", "9",
               "a", "b", "c", "d", "e", "f">>
IsHexDigit(c) == \E i \in 1..16 : HexDigits[i] = c
HexValue(c) == (CHOOSE i \in 1..16 : HexDigits[i] = c) - 1

\* parseInt(chunk, 16): leading white space is skipped, then the longest run of
\* hex digits is read; NaN when there is none.
RECURSIVE ParseDigits(_, _)
ParseDigits(chars, acc) ==
  IF chars = <<>> \/ ~IsHexDigit(Head(chars))
    THEN acc
    ELSE ParseDigits(Tail(chars), 16 * (IF acc = NaN THEN 0 ELSE acc) + HexValue(Head(chars)))

RECURSIVE ParseInt16(_)
ParseInt16(chars) ==
  IF chars # <<>> /\ Head(chars) = " "
    THEN ParseInt16(Tail(chars))
    ELSE ParseDigits(chars, NaN)

\* The conversion of a number to an element of a Uint8Array: NaN becomes 0.
ToUint8(v) == IF v = NaN THEN 0 ELSE v % 256

\* hexKey.match(/.{1,2}/g): chunks of two characters, the last of one when the
\* length is odd; <<>> stands for the null of an empty string.
RECURSIVE MatchPairs(_)
MatchPairs(chars) ==
  IF Len(chars) <= 2
    THEN IF chars = <<>> THEN <<>> ELSE <<chars>>
    ELSE <<SubSeq(chars, 1, 2)>> \o MatchPairs(SubSeq(chars, 3, Len(chars)))

\* b.toString(16).padStart(2, '0') joined over the bytes.
RECURSIVE BytesToHex(_)
BytesToHex(bytes) ==
  IF bytes = <<>>
    THEN <<>>
    ELSE <<HexDigits[(Head(bytes) \div 16) + 1], HexDigits[(Head(bytes) % 16) + 1]>>
           \o BytesToHex(Tail(bytes))

\* getPublicKey throws unless the secret key has 32 bytes and is a non-zero
\* scalar; the public key is kept as the bytes it was derived from.
SecretKeyValid(bytes) ==
  /\ Len(bytes) = SecretKeyBytes
  /\ \E i \in 1..Len(bytes) : bytes[i] # 0

getPublicKey(bytes) == [of |-> bytes]

\* importKeys(privateKey).  An input is its characters; for an input that
\* starts with nsec, decodes tells whether nip19.decode accepts it and data is
\* the secret it decodes to.
importKeys(s, privateKey) ==
  LET s0 == Call(s, "importKeys", privateKey)
      thrown == Call(s0, "throw", "Invalid private key format")
      isNsec == Len(privateKey.chars) >= 4 /\ SubSeq(privateKey.chars, 1, 4) = <<"n", "s", "e", "c">>
  IN IF isNsec /\ ~privateKey.decodes
       THEN thrown
       ELSE LET hexKey == IF isNsec THEN BytesToHex(privateKey.data) ELSE privateKey.chars
                pairs == MatchPairs(hexKey)
                privateKeyBytes == [i \in 1..Len(pairs) |-> ToUint8(ParseInt16(pairs[i]))]
            IN IF pairs = <<>> \/ ~SecretKeyValid(privateKeyBytes)
                 THEN thrown
                 ELSE [s0 EXCEPT !.store.keys =
                         [privateKey |-> hexKey, publicKey |-> getPublicKey(privateKeyBytes)]]

\* clearKeys
clearKeys(s) == [s EXCEPT !.store.keys = NoKeys]

\* setUserName
setUserName(s, name) == [s EXCEPT !.store.userName = name]

\* removeRelay
removeRelay(s, url) == [s EXCEPT !.store.relays = SelectSeq(@, LAMBDA r : r # url)]

----------------------------------------------------------------------------
\* The recent-document list (useDocuments).

\* slice(0, 20)
MaxDocuments == 20

\* prev.filter((d) => d.id !== id)
RECURSIVE WithoutId(_, _)
WithoutId(list, id) ==
  IF list = <<>>
    THEN <<>>
    ELSE IF Head(list).id = id
      THEN WithoutId(Tail(list), id)
      ELSE <<Head(list)>> \o WithoutId(Tail(list), id)

\* slice(0, n)
Slice(list, n) == SubSeq(list, 1, Min(n, Len(list)))

\* A faulty addDocument: the new entry is put in front of the list as it is.
addDocumentKeep(s, id, title) ==
  LET updated ==
        Slice(<<[id |-> id, title |-> title, lastOpened |-> s.now]>> \o s.documents,
              MaxDocuments)
      s1 == Call(s, "addDocument", [id |-> id, title |-> title])
  IN Call([s1 EXCEPT !.documents = updated], "setItem", updated)

\* addDocument: the updater of setDocuments and its localStorage.setItem.
addDocument(s, id, title) ==
  LET updated ==
        Slice(<<[id |-> id, title |-> title, lastOpened |-> s.now]>>
                \o WithoutId(s.documents, id),
              MaxDocuments)
      s1 == Call(s, "addDocument", [id |-> id, title |-> title])
  IN Call([s1 EXCEPT !.documents = updated], "setItem", updated)

\* removeDocument: the updater of setDocuments and its localStorage.setItem.
removeDocument(s, id) ==
  LET updated == WithoutId(s.documents, id)
      s1 == Call(s, "removeDocument", id)
  IN Call([s1 EXCEPT !.documents = updated], "setItem", updated)

----------------------------------------------------------------------------
\* Inputs.

\* The sequences without repetition of at most n elements of S.
SeqsNoRep(S, n) ==
  {q \in UNION {[1..k -> S] : k \in 0..Min(n, Cardinality(S))} :
     \A i, j \in 1..Len(q) : i # j => q[i] # q[j]}

Snapshots(E) == {e \in E : e.kind = DOCUMENT_SNAPSHOT}
Updates(E) == {e \in E : e.kind = CRDT_UPDATE}
Results == [relays -> {"fulfilled", "rejected"}]

\* Strings handed to importKeys.
Repeat(c, n) == [i \in 1..n |-> c]
HexInput(chars) == [chars |-> chars, decodes |-> FALSE, data |-> <<>>]
NsecInput(decodes, data) ==
  [chars |-> <<"n", "s", "e", "c", "1">>, decodes |-> decodes, data |-> data]

KeyGood == HexInput(Repeat("1", 64))
KeyGoodToo == HexInput(<<"a", "b">> \o Repeat("0", 62))
KeyEmpty == HexInput(<<>>)
KeyShort == HexInput(Repeat("1", 10))
KeyZero == HexInput(Repeat("0", 64))
KeyNoHex == HexInput(Repeat("g", 64))
KeyOneBadChar == HexInput(<<"1", "g">> \o Repeat("1", 62))
KeyOddLength == HexInput(Repeat("1", 63))
KeySpace == HexInput(<<" ", "f">> \o Repeat("1", 62))
KeyNsec == NsecInput(TRUE, Repeat(10, 32))
KeyNsecBad == NsecInput(FALSE, <<>>)

KeyInputs ==
  {KeyGood, KeyGoodToo, KeyEmpty, KeyShort, KeyZero, KeyNoHex, KeyOneBadChar,
   KeyOddLength, KeySpace, KeyNsec, KeyNsecBad}

----------------------------------------------------------------------------
\* Actions: one task each.

Init ==
  /\ doc = EmptyDoc
  /\ subscriptionId = "null"
  /\ pendingUpdates = 0
  /\ batchTimer = FALSE
  /\ isConnected = FALSE
  /\ lastSyncTimestamp = 0
  /\ awareness = <<>>
  /\ lastExportedVersion = NoVersion
  /\ syncOnConnect \in BOOLEAN
  /\ timers = 0
  /\ inflight = <<>>
  /\ subs = <<>>
  /\ pc = "idle"
  /\ fetched = <<>>
  /\ store = [keys |-> NoKeys, relays |-> DEFAULT_RELAYS, userName |-> ""]
  /\ eventListeners = [ev \in EventTypes |-> <<>>]
  /\ metrics = NoMetrics
  /\ now = 0
  /\ documents = <<>>
  /\ relay = {}
  /\ peer = NoPeer
  /\ notified = [i \in EventIds |-> 0]
  /\ hist = [destroyed |-> FALSE, released |-> {}, rejected |-> FALSE,
             mounted |-> FALSE, docCalls |-> 0]
  /\ calls = <<>>

\* connect() up to the await of subscribe(), called on an engine that holds no
\* subscription.
Connect ==
  /\ pc = "idle"
  /\ subs = <<>>
  /\ Commit([subscribe(St) EXCEPT !.pc = "connecting"])

\* connect() up to the await of subscribe(), called at any time no other
\* connect() is in progress.
ConnectAny ==
  /\ pc = "idle"
  /\ Len(subs) < MaxSubs
  /\ Commit([subscribe(St) EXCEPT !.pc = "connecting"])

\* connect() up to the await of subscribe(), called on an engine that is
\* already connected, as by the connect callback of useLoroNostr after the
\* automatic connect.
ConnectConnected ==
  /\ pc = "idle"
  /\ isConnected
  /\ Len(subs) < MaxConnects
  /\ Commit([subscribe(St) EXCEPT !.pc = "connecting"])

\* connect() after the await: connected, then fetchHistory up to its first query.
ConnectResume ==
  /\ pc = "connecting"
  /\ LET s1 == emit([St EXCEPT !.isConnected = TRUE], "connected", 0)
     IN IF SyncsOnConnect(s1)
          THEN Commit([emit(s1, "sync", [status |-> "syncing"])
                         EXCEPT !.pc = "querySnapshots"])
          ELSE Commit([connectReturn(s1, "resolved") EXCEPT !.pc = "idle"])

\* connect() when subscribe() throws at its first subscribeMany: nothing is
\* opened, and the rejection of subscribe() is awaited.
ConnectThrows ==
  /\ pc = "idle"
  /\ subs = <<>>
  /\ Commit([Call(St, "subscribeManyThrows", 0) EXCEPT !.pc = "rejected"])

\* connect() after the await of the rejected subscribe(): the catch.
ConnectCatch ==
  /\ pc = "rejected"
  /\ Commit([connectCatch(St) EXCEPT !.pc = "idle", !.hist.rejected = TRUE])

\* The snapshot query returns: at most one event per relay.
SnapshotsReturn(E) ==
  /\ pc = "querySnapshots"
  /\ \E evs \in SeqsNoRep(Snapshots(E), NumRelays) :
       Commit([St EXCEPT !.fetched = evs, !.pc = "queryUpdates"])

\* The update query returns; the fetched events are applied.
UpdatesReturn(E) ==
  /\ pc = "queryUpdates"
  /\ \E evs \in SeqsNoRep(Updates(E), Cardinality(E)) :
       Commit([connectReturn(reconcile(St, fetched, evs), "resolved")
                 EXCEPT !.fetched = <<>>, !.pc = "idle"])

\* A query rejects: the catch of fetchHistory.
QueryFails ==
  /\ pc \in {"querySnapshots", "queryUpdates"}
  /\ Commit([fetchFailed(St) EXCEPT !.fetched = <<>>, !.pc = "idle"])

\* onevent of an open subscription: the pool hands over an event that matches
\* the filter and that this subscription has not yet seen.
Deliver(E) ==
  \E i \in 1..Len(subs), e \in E :
    /\ e.kind \in {CRDT_UPDATE, DOCUMENT_SNAPSHOT, PRESENCE}
    /\ e.id \notin subs[i].known
    /\ e.kind # PRESENCE => e.created_at >= subs[i].since
    /\ Commit(handleEvent([St EXCEPT !.subs[i].known = @ \cup {e.id}], e))

\* onevent called with an event of any kind, as by a relay that ignores the
\* kinds of the filter.
DeliverUnfiltered(E) ==
  \E i \in 1..Len(subs), e \in E :
    /\ e.id \notin subs[i].known
    /\ Commit(handleEvent([St EXCEPT !.subs[i].known = @ \cup {e.id}], e))

\* oneose of the document subscription.
Eose ==
  \E i \in 1..Len(subs) :
    /\ ~subs[i].eose
    /\ Commit(emit([St EXCEPT !.subs[i].eose = TRUE], "sync", [status |-> "synced"]))

Disconnect ==
  /\ pendingUpdates > 0 => Len(inflight) < MaxInflight
  /\ Commit(disconnect(St))

\* destroy(), called by the host; the registrations it found are remembered.
Destroy ==
  /\ pendingUpdates > 0 => Len(inflight) < MaxInflight
  /\ Commit([destroy(St) EXCEPT !.hist.destroyed = TRUE,
                                !.hist.released = @ \cup Registrations(St)])

\* on(), called by the host with a callback it has not had released before.
On(T) ==
  \E ev \in T, cb \in Callbacks :
    /\ [ev |-> ev, cb |-> cb] \notin hist.released
    /\ [ev |-> ev, cb |-> cb] \notin Registrations(St)
    /\ Commit(on(St, ev, cb))

\* off(), called by the host for a registered callback.
Off(T) ==
  \E ev \in T, cb \in Callbacks :
    /\ [ev |-> ev, cb |-> cb] \in Registrations(St)
    /\ Commit(off(St, ev, cb))

\* A local commit on the document: one more local operation, origin "local".
LocalEdit ==
  /\ doc.local < MaxLocal
  /\ pendingUpdates < MaxPending
  /\ Commit(docListener([St EXCEPT !.doc.local = @ + 1], "local"))

\* A checkout of the document: no new operation, origin "checkout".
Checkout ==
  /\ pendingUpdates < MaxPending
  /\ Commit(docListener(St, "checkout"))

\* The batch timer expires.
TimerFires ==
  /\ timers > 0
  /\ Len(inflight) < MaxInflight
  /\ Commit(flushUpdates([St EXCEPT !.timers = @ - 1]))

\* The batch timer expires while an earlier publish is still in flight.
TimerFiresInFlight ==
  /\ timers > 0
  /\ inflight # <<>>
  /\ Len(inflight) <= MaxInflight
  /\ Commit(flushUpdates([St EXCEPT !.timers = @ - 1]))

\* publishSnapshot() up to its await.
PublishSnapshot ==
  /\ Len(inflight) < MaxInflight
  /\ Commit(poolPublish(St, DOCUMENT_SNAPSHOT, Export(doc, EmptyDoc)))

\* updatePresence(), called by the host with a name and a cursor.
UpdatePresence ==
  \E cursor \in 1..2 :
    /\ Len(inflight) < MaxInflight
    /\ Commit(updatePresence(St, [name |-> "me", cursor |-> cursor]))

\* importKeys(), called from the settings with a typed string.
ImportKeys ==
  \E privateKey \in KeyInputs : Commit(importKeys(St, privateKey))

ClearKeys ==
  /\ store.keys # NoKeys
  /\ Commit(clearKeys(St))

SetUserName ==
  \E name \in {"", "ann"} :
    /\ name # store.userName
    /\ Commit(setUserName(St, name))

RemoveRelay ==
  \E i \in 1..Len(store.relays) : Commit(removeRelay(St, store.relays[i]))

\* ping(), called from the debug panel, whose buttons are enabled while the
\* engine is connected.
Ping ==
  /\ isConnected
  /\ Len(metrics.measurements) < MaxPings
  /\ Len(inflight) < MaxInflight
  /\ Commit(ping(St))

\* Time passes.
Tick ==
  /\ now < MaxTime
  /\ Commit([St EXCEPT !.now = @ + 1])

\* onevent with a PING or PONG event: a pong of another engine for any probe
\* identifier, a ping of another engine, or the echo of a ping this engine
\* published.  Relays may hand the same event over more than once.
DeliverProbe ==
  \E i \in 1..Len(subs), kind \in {PING, PONG}, pk \in {publicKey, "p1"},
     id \in 1..(MaxPings + 1) :
    /\ pk = publicKey =>
         /\ kind = PING
         /\ \E j \in 1..Len(metrics.measurements) : metrics.measurements[j].id = id
    /\ Commit(handleProbe(St, [kind |-> kind, pubkey |-> pk, pingId |-> id]))

\* A local commit while both engines are connected.
LocalEditConnected ==
  /\ isConnected
  /\ peer.connected
  /\ LocalEdit

\* The second engine connects: its subscription is open.
PeerConnect ==
  /\ ~peer.connected
  /\ Commit([St EXCEPT !.peer.connected = TRUE])

\* Every relay accepts the published update: the event is with the relay, and
\* Promise.allSettled resolves with every result fulfilled.
PublishAccepted ==
  \E i \in 1..Len(inflight) :
    /\ inflight[i].kind = CRDT_UPDATE
    /\ Commit([publishSettled(St, i, [r \in relays |-> "fulfilled"])
                 EXCEPT !.relay = @ \cup {UpdateEvent(St, inflight[i].payload)}])

\* onevent of the second engine's subscription: the relay hands over an
\* accepted event this subscription has not yet seen.
PeerDeliver ==
  \E e \in relay :
    /\ peer.connected
    /\ e.id \notin peer.known
    /\ Commit([St EXCEPT !.peer =
                 peerHandleEvent([peer EXCEPT !.known = @ \cup {e.id}, !.calls = <<>>], e)])

\* The ids the sidebar passes: the oldest, a middle and the newest document of
\* a full list, and some that no stored list holds.
DocIds == {1, 5, MaxDocuments} \cup (MaxDocuments + 1)..(MaxDocuments + NumFreshDocs)

\* The lists an earlier session left in localStorage: n documents, opened in
\* the order of their ids, the latest first.
StoredDocuments ==
  {[i \in 1..n |-> [id |-> n + 1 - i, title |-> "old", lastOpened |-> 0]] :
     n \in 0..MaxDocuments}

\* The effect of useDocuments on mount: the stored list is loaded.
MountDocuments ==
  /\ ~hist.mounted
  /\ \E stored \in StoredDocuments :
       Commit([Call(St, "getItem", stored)
                 EXCEPT !.documents = stored, !.hist.mounted = TRUE])

\* addDocument(), called from the sidebar.
AddDocument ==
  \E id \in DocIds :
    /\ hist.mounted
    /\ hist.docCalls < MaxDocCalls
    /\ Commit([addDocument(St, id, "new") EXCEPT !.hist.docCalls = @ + 1])

\* removeDocument(), called from the sidebar.
RemoveDocument ==
  \E id \in DocIds :
    /\ hist.mounted
    /\ hist.docCalls < MaxDocCalls
    /\ Commit([removeDocument(St, id) EXCEPT !.hist.docCalls = @ + 1])

\* Promise.allSettled resolves for one in-flight publish.
PublishSettles ==
  \E i \in 1..Len(inflight), results \in Results :
    Commit(publishSettled(St, i, results))

\* The whole engine, with few events on the relays.
SpecEvents == {U1, S1}

Next ==
  \/ Connect
  \/ ConnectResume
  \/ SnapshotsReturn(SpecEvents)
  \/ UpdatesReturn(SpecEvents)
  \/ QueryFails
  \/ Deliver(SpecEvents)
  \/ Eose
  \/ Disconnect
  \/ LocalEdit
  \/ TimerFires
  \/ PublishSettles

Spec == Init /\ [][Next]_vars

\* The inbound paths: subscription delivery and history reconciliation.
InEvents == {U1, S1, U2, U3, S2, UBad}

NextIn ==
  \/ Connect
  \/ ConnectResume
  \/ SnapshotsReturn(InEvents)
  \/ UpdatesReturn(InEvents)
  \/ QueryFails
  \/ Deliver(InEvents)
  \/ Eose
  \/ Disconnect

SpecIn == Init /\ [][NextIn]_vars

\* Inbound events signed with the engine's own key.
EchoEvents == {UMe, SMe, PMe, U1}

NextEcho ==
  \/ Connect
  \/ ConnectResume
  \/ SnapshotsReturn(EchoEvents)
  \/ UpdatesReturn(EchoEvents)
  \/ QueryFails
  \/ Deliver(EchoEvents)
  \/ Eose
  \/ Disconnect

SpecEcho == Init /\ [][NextEcho]_vars

\* Inbound events tagged for the room whose envelope names another document.
RoomEvents == {UOther, SOther, U1}

NextRoom ==
  \/ Connect
  \/ ConnectResume
  \/ SnapshotsReturn(RoomEvents)
  \/ UpdatesReturn(RoomEvents)
  \/ QueryFails
  \/ Deliver(RoomEvents)
  \/ Eose
  \/ Disconnect

SpecRoom == Init /\ [][NextRoom]_vars

\* Presence.
PresenceEvents == {P1a, P1b, P2a, PMe, PBad}

NextPresence ==
  \/ ConnectAny
  \/ ConnectResume
  \/ QueryFails
  \/ Deliver(PresenceEvents)
  \/ Eose
  \/ Disconnect

SpecPresence == Init /\ [][NextPresence]_vars

\* The outbound path: local changes, batching, flush and publish.
NextOut ==
  \/ Connect
  \/ ConnectResume
  \/ QueryFails
  \/ Disconnect
  \/ LocalEdit
  \/ Checkout
  \/ TimerFires
  \/ PublishSnapshot
  \/ PublishSettles

SpecOut == Init /\ [][NextOut]_vars

\* connect() and its failures, with the inbound paths.
NextConn ==
  \/ Connect
  \/ ConnectThrows
  \/ ConnectCatch
  \/ ConnectResume
  \/ SnapshotsReturn(SpecEvents)
  \/ UpdatesReturn(SpecEvents)
  \/ QueryFails
  \/ Deliver(SpecEvents)
  \/ Eose
  \/ Disconnect

SpecConn == Init /\ [][NextConn]_vars

\* destroy() and the listeners, with one event in the history and snapshot
\* publishes in flight.
DestroyEvents == {U1}
ListenedTypes == {"disconnected", "update"}

NextDestroy ==
  \/ Connect
  \/ ConnectResume
  \/ SnapshotsReturn(DestroyEvents)
  \/ UpdatesReturn(DestroyEvents)
  \/ QueryFails
  \/ Destroy
  \/ On(ListenedTypes)
  \/ Off(ListenedTypes)
  \/ PublishSnapshot
  \/ PublishSettles

SpecDestroy == Init /\ [][NextDestroy]_vars

\* destroy() and the outbound path.
NextDestroyOut ==
  \/ Connect
  \/ ConnectResume
  \/ QueryFails
  \/ Destroy
  \/ LocalEdit
  \/ TimerFires
  \/ PublishSettles

SpecDestroyOut == Init /\ [][NextDestroyOut]_vars

\* History with events that cannot be decoded or imported.
FaultEvents == {U1, U2, UBad, UInv, SBad}

NextFault ==
  \/ Connect
  \/ ConnectResume
  \/ SnapshotsReturn(FaultEvents)
  \/ UpdatesReturn(FaultEvents)
  \/ QueryFails
  \/ Deliver(FaultEvents)
  \/ Eose
  \/ Disconnect

SpecFault == Init /\ [][NextFault]_vars

\* Presence publishes next to the outbound path.
NextPresenceOut ==
  \/ Connect
  \/ ConnectResume
  \/ QueryFails
  \/ Deliver({P1a})
  \/ Disconnect
  \/ LocalEdit
  \/ TimerFires
  \/ UpdatePresence
  \/ PublishSettles

SpecPresenceOut == Init /\ [][NextPresenceOut]_vars

\* Inbound events of kinds the engine does not handle.
KindEvents == {EPing, EPong, EMeta, U1, P1a}

NextKinds ==
  \/ Connect
  \/ ConnectResume
  \/ QueryFails
  \/ DeliverUnfiltered(KindEvents)
  \/ Eose
  \/ Disconnect

SpecKinds == Init /\ [][NextKinds]_vars

\* Presence over the life of the engine: reconnects and destroy.
AwareEvents == {P1a, P1b, P2a}

NextAware ==
  \/ Connect
  \/ ConnectResume
  \/ QueryFails
  \/ Deliver(AwareEvents)
  \/ Disconnect
  \/ Destroy

SpecAware == Init /\ [][NextAware]_vars

\* The key store.
NextStore ==
  \/ ImportKeys
  \/ ClearKeys
  \/ SetUserName
  \/ RemoveRelay

SpecStore == Init /\ [][NextStore]_vars

\* Live delivery with events that cannot be decoded or imported.
LiveFaultEvents == {U1, UBad, UInv, SBad, SDec, PBad, P1a}

NextLiveFault ==
  \/ Connect
  \/ ConnectResume
  \/ QueryFails
  \/ Deliver(LiveFaultEvents)
  \/ Disconnect

SpecLiveFault == Init /\ [][NextLiveFault]_vars

\* connect() called again on a connected engine.
NextAgain ==
  \/ Connect
  \/ ConnectConnected
  \/ ConnectResume
  \/ QueryFails
  \/ Deliver({U1, P1a})
  \/ Disconnect

SpecAgain == Init /\ [][NextAgain]_vars

\* The batch timer next to everything that queues, flushes or cancels.
NextTimer ==
  \/ Connect
  \/ ConnectResume
  \/ QueryFails
  \/ Deliver({U1})
  \/ LocalEdit
  \/ Checkout
  \/ TimerFires
  \/ PublishSettles
  \/ Disconnect
  \/ Destroy

SpecTimer == Init /\ [][NextTimer]_vars

\* Flushes, also while a publish is in flight.
NextFlush ==
  \/ Connect
  \/ ConnectResume
  \/ QueryFails
  \/ Deliver({U1})
  \/ LocalEdit
  \/ Checkout
  \/ TimerFires
  \/ TimerFiresInFlight
  \/ PublishSettles

SpecFlush == Init /\ [][NextFlush]_vars

\* The recent-document list.
NextDocuments ==
  \/ MountDocuments
  \/ AddDocument
  \/ RemoveDocument

SpecDocuments == Init /\ [][NextDocuments]_vars

\* The latency probe on a connected engine.
NextProbe ==
  \/ Connect
  \/ ConnectResume
  \/ Ping
  \/ Tick
  \/ DeliverProbe
  \/ PublishSettles

SpecProbe == Init /\ [][NextProbe]_vars

\* Two engines on one room and a relay that accepts and delivers everything.
\* The relay holds nothing when the engines connect.
NextLive ==
  \/ Connect
  \/ ConnectResume
  \/ SnapshotsReturn({})
  \/ UpdatesReturn({})
  \/ PeerConnect
  \/ LocalEditConnected
  \/ TimerFires
  \/ PublishAccepted
  \/ Deliver(relay)
  \/ PeerDeliver

\* The batch timer fires, publishes complete and accepted events are delivered.
SpecLive ==
  /\ Init
  /\ [][NextLive]_vars
  /\ WF_vars(TimerFires)
  /\ WF_vars(PublishAccepted)
  /\ WF_vars(PeerDeliver)

----------------------------------------------------------------------------
\* Reading the calls of a task.

CallsOf(cs, op) == SelectSeq(cs, LAMBDA c : c.op = op)
Emits(cs, ev) == SelectSeq(cs, LAMBDA c : c.op = "emit" /\ c.a.ev = ev)
Imported(cs) == [i \in 1..Len(CallsOf(cs, "import")) |-> CallsOf(cs, "import")[i].a]
Published(cs) == CallsOf(cs, "publish")

\* The event a subscription hands over in this step, if any.
DeliveredNow ==
  {e \in AllEvents :
     /\ Len(subs') = Len(subs)
     /\ \E i \in 1..Len(subs) : e.id \in subs'[i].known \ subs[i].known}

----------------------------------------------------------------------------
\* C1. Self-echo suppression: no task imports an event, or ingests a presence
\* event, whose signer is the engine's own public key, on the subscription path
\* and on the history path alike.
C1_SelfEchoSuppression ==
  \A i \in 1..Len(calls) :
    calls[i].op \in {"import", "ingest"} => calls[i].a.pubkey # publicKey

\* C7. Once per unique event: the `update` or `sync{snapshot:true}` notification
\* of one event id is emitted at most once, however often the event arrives.
C7_OncePerUniqueEvent == \A id \in EventIds : notified[id] <= 1

\* C8. Room scoping: an update or snapshot whose envelope names another
\* document is not imported, does not advance lastSyncTimestamp and is not
\* notified.
C8_RoomScoping ==
  /\ \A i \in 1..Len(calls) :
       calls[i].op = "import" => calls[i].a.docId = docId
  /\ \A e \in AllEvents : e.docId # docId => notified[e.id] = 0

\* C2. At-least-one-success publish: when an update or snapshot publish settles
\* over N >= 1 relays, no `error` is emitted if some relay accepted, exactly one
\* `error` is emitted if every relay rejected, and the publish resolves.
C2_AtLeastOneSuccess ==
  \A i \in 1..Len(calls) :
    (calls[i].op = "settled" /\ calls[i].a.kind \in {CRDT_UPDATE, DOCUMENT_SNAPSHOT}) =>
      LET results == calls[i].a.results
          errors == Len(Emits(calls, "error"))
      IN /\ relays # {}
         /\ (\E r \in relays : results[r] = "fulfilled") => errors = 0
         /\ (\A r \in relays : results[r] = "rejected") => errors = 1
         /\ \E j \in 1..Len(calls) :
              calls[j].op = "return" /\ calls[j].a.promise = "resolved"

\* An update publish that one relay rejected and another accepted has settled.
C2_Witness ==
  \E i \in 1..Len(calls) :
    /\ calls[i].op = "settled"
    /\ calls[i].a.kind = CRDT_UPDATE
    /\ \E r \in relays : calls[i].a.results[r] = "rejected"
    /\ \E r \in relays : calls[i].a.results[r] = "fulfilled"
    /\ Emits(calls, "error") = <<>>

\* C3. Reconciliation ordering: whatever the queries return, in whatever array
\* order, the snapshot import (if a snapshot was returned) comes before every
\* update import, and the returned updates are imported once each in
\* non-decreasing created_at order, those older than the snapshot included.
C3_ReconciliationOrdering ==
  (calls # <<>> /\ calls[1].op = "querySync") =>
    LET q == calls[1].a
        imp == Imported(calls)
        returnedSnapshots == {q.snapshotEvents[i] : i \in 1..Len(q.snapshotEvents)}
        returnedUpdates == {q.updateEvents[i] : i \in 1..Len(q.updateEvents)}
    IN /\ \A i \in 1..Len(imp) : imp[i].kind = DOCUMENT_SNAPSHOT => i = 1
       /\ (returnedSnapshots # {} /\ \A e \in returnedSnapshots : e.fault # "decode") =>
            (imp # <<>> /\ imp[1] \in returnedSnapshots)
       /\ \A i, j \in 1..Len(imp) :
            (i < j /\ imp[i].kind = CRDT_UPDATE /\ imp[j].kind = CRDT_UPDATE) =>
              imp[i].created_at <= imp[j].created_at
       /\ \A e \in returnedUpdates :
            e.fault # "decode" => Cardinality({i \in 1..Len(imp) : imp[i] = e}) = 1
       /\ \A i \in 1..Len(imp) :
            imp[i].kind = CRDT_UPDATE => imp[i] \in returnedUpdates

\* The queries returned S1 and the updates in descending order, one of them
\* older than S1, and the imports were S1, U1, U2.
C3_Witness ==
  /\ calls # <<>>
  /\ calls[1].op = "querySync"
  /\ calls[1].a.snapshotEvents = <<S1>>
  /\ calls[1].a.updateEvents = <<U2, U1>>
  /\ Imported(calls) = <<S1, U1, U2>>

\* C4. Batch coalescing: at most one batch timer is scheduled; an enqueue while
\* the timer is armed neither arms, resets nor adds a timer; the expiry runs one
\* flush with at most one publish, and exactly one when a local change is
\* waiting.
C4_BatchCoalescing ==
  [][/\ timers' <= 1
     /\ (batchTimer /\ pendingUpdates' > pendingUpdates) =>
          /\ batchTimer'
          /\ timers' = timers
          /\ CallsOf(calls', "setTimeout") = <<>>
          /\ CallsOf(calls', "clearTimeout") = <<>>
     /\ (timers' < timers /\ CallsOf(calls', "clearTimeout") = <<>>) =>
          /\ Len(CallsOf(calls', "export")) = 1
          /\ Len(Published(calls')) <= 1
          /\ (doc.local > (IF lastExportedVersion = NoVersion
                             THEN 0 ELSE lastExportedVersion.local)) =>
               Len(Published(calls')) = 1]_vars

\* Two local changes are waiting behind one armed timer.
C4_Witness ==
  /\ doc.local >= 2
  /\ pendingUpdates >= 2
  /\ batchTimer
  /\ timers = 1
  /\ calls = <<>>

\* C5. Empty-delta skip: a flush whose exported delta has zero bytes publishes
\* nothing.
C5_EmptyDeltaSkip ==
  \A i \in 1..Len(calls) :
    (/\ calls[i].op = "export"
     /\ calls[i].a.update.hi = calls[i].a.update.lo
     /\ calls[i].a.update.remote = {}) => Published(calls) = <<>>

\* A flush has exported an empty delta.
C5_Witness ==
  \E i \in 1..Len(calls) :
    /\ calls[i].op = "export"
    /\ calls[i].a.update.hi = calls[i].a.update.lo
    /\ calls[i].a.update.remote = {}

Pubkeys(m) == [i \in 1..Len(m) |-> m[i].pubkey]

IsRemotePresence(e) == e.kind = PRESENCE /\ e.pubkey # publicKey /\ e.fault = "none"

\* C6. Presence upsert: the awareness map holds one entry per remote identity;
\* receiving a presence event makes that identity's entry the received one,
\* keeps the other entries and the order of first receipt, and emits one
\* `awareness` notification with the full list; nothing else changes the map.
C6_PresenceUpsert ==
  [][/\ \A i, j \in 1..Len(awareness') :
          i # j => awareness'[i].pubkey # awareness'[j].pubkey
     /\ \A i \in 1..Len(awareness') : awareness'[i].pubkey # publicKey
     /\ \A e \in DeliveredNow :
          IsRemotePresence(e) =>
            /\ \E i \in 1..Len(awareness') :
                 /\ awareness'[i].pubkey = e.pubkey
                 /\ awareness'[i].name = e.name
                 /\ awareness'[i].cursor = e.cursor
                 /\ awareness'[i].lastSeen = e.created_at
                 /\ e.color # NoColor => awareness'[i].color = e.color
            /\ Pubkeys(awareness') =
                 IF \E i \in 1..Len(awareness) : awareness[i].pubkey = e.pubkey
                   THEN Pubkeys(awareness)
                   ELSE Append(Pubkeys(awareness), e.pubkey)
            /\ \A i \in 1..Len(awareness) :
                 awareness[i].pubkey # e.pubkey => awareness'[i] = awareness[i]
            /\ Len(Emits(calls', "awareness")) = 1
            /\ Emits(calls', "awareness")[1].a.data.participants = getAwareness'
     /\ (\A e \in DeliveredNow : ~IsRemotePresence(e)) =>
          (awareness' = awareness /\ Emits(calls', "awareness") = <<>>)]_vars

\* p1's older presence event was received after its newer one and after p2's:
\* p1's entry shows the older cursor and still comes first.
C6_Witness ==
  /\ Len(subs) >= 1
  /\ {P1b.id, P2a.id} \subseteq subs[1].known
  /\ Len(awareness) = 2
  /\ awareness[1].pubkey = "p1"
  /\ awareness[1].cursor = P1a.cursor
  /\ awareness[1].lastSeen = P1a.created_at
  /\ awareness[1].color.hue = 281
  /\ awareness[2].pubkey = "p2"
  /\ CallsOf(calls, "ingest") # <<>>
  /\ CallsOf(calls, "ingest")[1].a = P1a

\* C9. Flush semantics: a flush that runs with a non-empty pending buffer
\* exports the changes since the previous marker (all of them when there is no
\* marker), sets the marker to the document's current version and empties the
\* buffer, also when the delta is empty; a non-empty delta is what it publishes.
C9_FlushSemantics ==
  [][(pendingUpdates > 0 /\ timers' = timers - 1) =>
       LET expected ==
             IF lastExportedVersion = NoVersion
               THEN [lo |-> 0, hi |-> doc.local, remote |-> doc.remote]
               ELSE [lo |-> lastExportedVersion.local, hi |-> doc.local,
                     remote |-> doc.remote \ lastExportedVersion.remote]
           exports == CallsOf(calls', "export")
       IN /\ Len(exports) = 1
          /\ exports[1].a.from = lastExportedVersion
          /\ exports[1].a.update = expected
          /\ doc' = doc
          /\ lastExportedVersion' = doc
          /\ pendingUpdates' = 0
          /\ (expected.hi > expected.lo \/ expected.remote # {}) =>
               (Len(Published(calls')) = 1
                /\ Published(calls')[1].a.payload = expected)]_vars

\* A flush has exported the changes made since an earlier marker.
C9_Witness ==
  /\ pendingUpdates = 0
  /\ lastExportedVersion = doc
  /\ \E i \in 1..Len(calls) :
       /\ calls[i].op = "export"
       /\ calls[i].a.from # NoVersion
       /\ calls[i].a.update.lo > 0
       /\ calls[i].a.update.hi > calls[i].a.update.lo

\* C10. No feedback loop: a task that imports into the document leaves the
\* pending buffer and the batch timer as they were and publishes nothing; the
\* buffer never grows in a task that imports; and an update is published only
\* by a task that found the buffer non-empty.
C10_NoFeedbackLoop ==
  [][/\ (doc'.remote # doc.remote) =>
          /\ pendingUpdates' = pendingUpdates
          /\ batchTimer' = batchTimer
          /\ timers' = timers
          /\ CallsOf(calls', "setTimeout") = <<>>
          /\ Published(calls') = <<>>
     /\ (pendingUpdates' > pendingUpdates) => Imported(calls') = <<>>
     /\ \A i \in 1..Len(Published(calls')) :
          Published(calls')[i].a.kind = CRDT_UPDATE => pendingUpdates > 0]_vars

\* A remote event has just been imported into an engine with nothing pending:
\* nothing is queued, armed or in flight.
C10_Witness ==
  /\ Imported(calls) # <<>>
  /\ doc.remote # {}
  /\ pendingUpdates = 0
  /\ ~batchTimer
  /\ timers = 0
  /\ inflight = <<>>

----------------------------------------------------------------------------
\* The largest created_at among the events whose payload the document holds,
\* 0 when it holds none.
MaxImportedAt(d) ==
  LET times == {e.created_at : e \in {x \in AllEvents : x.id \in d.remote}}
  IN IF times = {} THEN 0 ELSE CHOOSE t \in times : \A u \in times : u <= t

\* C11. lastSyncTimestamp never decreases, and after every task it equals the
\* maximum created_at over the update and snapshot events imported successfully
\* so far (0 if none), whatever the order of arrival.
C11_SyncTimestampIsMax ==
  [][/\ lastSyncTimestamp' >= lastSyncTimestamp
     /\ lastSyncTimestamp' = MaxImportedAt(doc')]_vars

\* An event older than the timestamp already reached has just been imported.
C11_Witness ==
  \E i \in 1..Len(calls) :
    /\ calls[i].op = "import"
    /\ calls[i].a.fault = "none"
    /\ calls[i].a.created_at < lastSyncTimestamp
    /\ lastSyncTimestamp = MaxImportedAt(doc)

----------------------------------------------------------------------------
\* The emits of a task, as event names in order.
EmitNames(cs) ==
  [i \in 1..Len(CallsOf(cs, "emit")) |-> CallsOf(cs, "emit")[i].a.ev]

\* The emits of `sync` with the given status and no snapshot flag.
SyncEmits(cs, status) ==
  SelectSeq(cs, LAMBDA c : /\ c.op = "emit"
                           /\ c.a.ev = "sync"
                           /\ c.a.data = [status |-> status])

\* C12. Connect sequence: connect() reaches its await only in a task that
\* opened both subscriptions; its continuation sets isConnected and emits
\* `connected` exactly once, then, with syncOnConnect, `sync{syncing}`, and the
\* history queries follow only from there; the task that applies the fetched
\* history ends with the completion `sync{synced}` and connect() resolves;
\* without syncOnConnect connect() resolves at once and no history query is
\* ever issued.
C12_ConnectSequence ==
  [][/\ (pc' = "connecting" /\ pc # "connecting") =>
          /\ [i \in 1..Len(calls') |-> calls'[i].op] = <<"subscribeMany", "subscribeMany">>
          /\ calls'[1].a.kinds = {CRDT_UPDATE, DOCUMENT_SNAPSHOT}
          /\ calls'[2].a.kinds = {PRESENCE}
          /\ Len(subs') = Len(subs) + 1
     /\ Emits(calls', "connected") # <<>> =>
          /\ pc = "connecting"
          /\ isConnected'
          /\ EmitNames(calls') =
               IF syncOnConnect THEN <<"connected", "sync">> ELSE <<"connected">>
          /\ syncOnConnect =>
               /\ SyncEmits(calls', "syncing") # <<>>
               /\ pc' = "querySnapshots"
          /\ ~syncOnConnect =>
               /\ pc' = "idle"
               /\ CallsOf(calls', "connectReturn") = <<[op |-> "connectReturn", a |-> "resolved"]>>
     /\ (pc = "connecting" /\ pc' # "connecting") => Emits(calls', "connected") # <<>>
     /\ (pc' = "querySnapshots" /\ pc # "querySnapshots") => pc = "connecting"
     /\ (pc' = "queryUpdates" /\ pc # "queryUpdates") => pc = "querySnapshots"
     /\ CallsOf(calls', "querySync") # <<>> =>
          /\ pc = "queryUpdates"
          /\ syncOnConnect
          /\ LET es == CallsOf(calls', "emit")
             IN /\ es # <<>>
                /\ es[Len(es)].a = [ev |-> "sync", data |-> [status |-> "synced"]]
          /\ calls'[Len(calls')] = [op |-> "connectReturn", a |-> "resolved"]
     /\ ~syncOnConnect => pc' \notin {"querySnapshots", "queryUpdates"}]_vars

\* A connect() with syncOnConnect has run to its end: the fetched history was
\* applied, the completion was emitted, and the engine is connected.
C12_Witness ==
  /\ syncOnConnect
  /\ isConnected
  /\ pc = "idle"
  /\ Imported(calls) # <<>>
  /\ SyncEmits(calls, "synced") # <<>>
  /\ CallsOf(calls, "connectReturn") # <<>>

\* The engine state that a failed connect() or a failed fetch leaves alone.
EngineFields ==
  <<doc, subscriptionId, pendingUpdates, batchTimer, isConnected, lastSyncTimestamp,
    awareness, lastExportedVersion, timers, inflight, subs, eventListeners>>

\* C13. Connection-establishment failure: the task that handles a failed
\* subscribe() rejects connect(), emits exactly one `error` and no `connected`,
\* leaves isConnected and the rest of the engine as they were, and returns the
\* engine to the point from which connect() can be called again.
C13_ConnectFailure ==
  [][/\ (pc' = "rejected" /\ pc # "rejected") =>
          /\ CallsOf(calls', "subscribeMany") = <<>>
          /\ UNCHANGED EngineFields
     /\ (pc = "rejected" /\ pc' # "rejected") =>
          /\ Len(Emits(calls', "error")) = 1
          /\ EmitNames(calls') = <<"error">>
          /\ CallsOf(calls', "connectReturn") = <<[op |-> "connectReturn", a |-> "rejected"]>>
          /\ UNCHANGED EngineFields
          /\ pc' = "idle"
     /\ (pc = "rejected" /\ ~isConnected) => ~isConnected']_vars

\* After a connect() that was rejected, a later connect() has succeeded.
C13_Witness ==
  /\ hist.rejected
  /\ isConnected
  /\ subscriptionId = "active"
  /\ Emits(calls, "connected") # <<>>

\* C20. Fetch-level failure: the task in which a history query fails emits
\* exactly one `error` and no `sync`, imports nothing, leaves the document,
\* lastSyncTimestamp and isConnected as they were, and connect() resolves.
C20_FetchFailure ==
  [][(/\ pc \in {"querySnapshots", "queryUpdates"}
      /\ pc' = "idle"
      /\ CallsOf(calls', "querySync") = <<>>) =>
        /\ EmitNames(calls') = <<"error">>
        /\ Imported(calls') = <<>>
        /\ UNCHANGED EngineFields
        /\ CallsOf(calls', "connectReturn") = <<[op |-> "connectReturn", a |-> "resolved"]>>]_vars

\* A history query has just failed on a connected engine: the error was
\* emitted, connect() resolved, and the document is still empty.
C20_Witness ==
  /\ isConnected
  /\ subscriptionId = "active"
  /\ \E i \in 1..Len(calls) :
       /\ calls[i].op = "emit"
       /\ calls[i].a = [ev |-> "error", data |-> [message |-> "Failed to fetch history"]]
  /\ CallsOf(calls, "connectReturn") = <<[op |-> "connectReturn", a |-> "resolved"]>>
  /\ doc = EmptyDoc

----------------------------------------------------------------------------
\* The positions in the calls of a task at which op was called.
Positions(cs, op) == {i \in 1..Len(cs) : cs[i].op = op}

\* C14. Disconnect ordering: a disconnect() that starts with a non-empty pending
\* buffer cancels the armed timer and hands the pending delta to publish before
\* it closes the relay session, and only then marks the engine disconnected and
\* emits `disconnected`; when it returns the timer is unarmed and the buffer is
\* empty.
C14_DisconnectOrdering ==
  [][(CallsOf(calls', "disconnect") # <<>> /\ pendingUpdates > 0) =>
       /\ \A c \in Positions(calls', "close") :
            /\ \A k \in Positions(calls', "clearTimeout") : k < c
            /\ \A k \in Positions(calls', "export") \cup Positions(calls', "publish") : k < c
            /\ \A k \in {i \in 1..Len(calls') :
                           calls'[i].op = "emit" /\ calls'[i].a.ev = "disconnected"} : c < k
       /\ Len(Emits(calls', "disconnected")) = 1
       /\ ~isConnected'
       /\ ~batchTimer'
       /\ timers' = 0
       /\ pendingUpdates' = 0]_vars

\* C15. disconnect() is idempotent: called on an engine that is disconnected
\* and idle (not connected, no subscription, empty buffer, no timer) it changes
\* no engine state, closes nothing, publishes nothing and emits no further
\* `disconnected`.
C15_DisconnectIdempotent ==
  [][(/\ CallsOf(calls', "disconnect") # <<>>
      /\ ~isConnected
      /\ subscriptionId = "null"
      /\ pendingUpdates = 0
      /\ ~batchTimer) =>
        /\ UNCHANGED EngineFields
        /\ CallsOf(calls', "close") = <<>>
        /\ Published(calls') = <<>>
        /\ Emits(calls', "disconnected") = <<>>]_vars

----------------------------------------------------------------------------
\* The calls of a task that take in an inbound event: imports, presence
\* ingests, and the `update`, `sync{snapshot}` and `awareness` notifications.
InboundCalls(cs) ==
  SelectSeq(cs, LAMBDA c :
    \/ c.op \in {"import", "ingest"}
    \/ /\ c.op = "emit"
       /\ \/ c.a.ev \in {"update", "awareness"}
          \/ c.a.ev = "sync" /\ "snapshot" \in DOMAIN c.a.data)

\* C16. Once disconnect() has returned, leaving the engine without subscription
\* and not connected, no later task imports an inbound event, ingests it as
\* presence or surfaces it as a notification, be it a subscription callback or
\* the rest of a history reconciliation that was in flight.
C16_NoInboundAfterDisconnect ==
  [][(subscriptionId = "null" /\ ~isConnected) => InboundCalls(calls') = <<>>]_vars

----------------------------------------------------------------------------
\* C17. destroy() is terminal for local mutations: once destroy() has returned,
\* no task of the engine leaves an update in the pending buffer, arms the batch
\* timer or publishes.
C17_DestroyTerminal ==
  [][hist.destroyed =>
       /\ pendingUpdates' = 0
       /\ ~batchTimer'
       /\ timers' = 0
       /\ Published(calls') = <<>>]_vars

\* The callbacks invoked by a task, each with the event it was invoked for.
Invoked(cs) ==
  {[ev |-> cs[i].a.ev, cb |-> cs[i].a.cb] : i \in Positions(cs, "invoke")}

\* C18. destroy() releases all observers: a registration that a destroy() found
\* and released is never invoked by a later task, and the listener map is empty
\* when destroy() returns; the `disconnected` notification of the destroy itself
\* still reaches every callback registered for it.
C18_DestroyReleasesObservers ==
  [][/\ Invoked(calls') \cap hist.released = {}
     /\ CallsOf(calls', "destroy") # <<>> =>
          /\ Registrations(St') = {}
          /\ Len(Emits(calls', "disconnected")) = 1
          /\ \A r \in Registrations(St) :
               r.ev = "disconnected" => r \in Invoked(calls')]_vars

\* A task after destroy() emits an event for which a callback had been
\* registered before the destroy, and invokes nothing.
C18_Witness ==
  /\ hist.destroyed
  /\ CallsOf(calls, "destroy") = <<>>
  /\ \E r \in hist.released : r.ev # "disconnected" /\ Emits(calls, r.ev) # <<>>
  /\ \E r \in hist.released : r.ev = "disconnected"
  /\ Invoked(calls) = {}

----------------------------------------------------------------------------
\* The fetched events of the reconciliation a task ran: the arguments of its
\* querySync record.
FetchedUpdates(cs) ==
  LET q == CallsOf(cs, "querySync")[1].a.updateEvents
  IN {q[i] : i \in 1..Len(q)}

FetchedSnapshots(cs) ==
  LET q == CallsOf(cs, "querySync")[1].a.snapshotEvents
  IN {q[i] : i \in 1..Len(q)}

\* C19. Reconciliation failure policy: in a reconciliation, a fetched event
\* whose decode or import fails is skipped (no notification, not in the
\* document), every fetched update that is sound is still imported and
\* notified once, in non-decreasing created_at order, and the task ends with
\* the completion `sync{synced}` and no `error`.
C19_ReconciliationFailurePolicy ==
  CallsOf(calls, "querySync") # <<>> =>
    LET updates == Emits(calls, "update")
        sound == {e \in FetchedUpdates(calls) : e.fault = "none"}
        faulty == {e \in FetchedUpdates(calls) \cup FetchedSnapshots(calls) :
                     e.fault # "none"}
        es == CallsOf(calls, "emit")
    IN /\ {updates[i].a.data.id : i \in 1..Len(updates)} = {e.id : e \in sound}
       /\ Len(updates) = Cardinality(sound)
       /\ \A i, j \in 1..Len(updates) :
            i < j => updates[i].a.data.timestamp <= updates[j].a.data.timestamp
       /\ \A e \in sound : e.id \in doc.remote
       /\ \A e \in faulty : e.id \notin doc.remote /\ notified[e.id] = 0
       /\ Emits(calls, "error") = <<>>
       /\ es # <<>>
       /\ es[Len(es)].a = [ev |-> "sync", data |-> [status |-> "synced"]]

\* A reconciliation whose snapshot and two earlier updates failed has imported
\* the sound update that came after them.
C19_Witness ==
  /\ CallsOf(calls, "querySync") # <<>>
  /\ SBad \in FetchedSnapshots(calls)
  /\ {UInv, UBad, U2} \subseteq FetchedUpdates(calls)
  /\ U2.id \in doc.remote
  /\ SyncEmits(calls, "synced") # <<>>

----------------------------------------------------------------------------
\* C21. Latest snapshot: a reconciliation whose queries returned snapshot
\* events imports exactly one snapshot, and no returned snapshot is newer than
\* the imported one.
C21_LatestSnapshot ==
  (CallsOf(calls, "querySync") # <<>> /\ FetchedSnapshots(calls) # {}) =>
    LET imp == SelectSeq(Imported(calls), LAMBDA e : e.kind = DOCUMENT_SNAPSHOT)
    IN /\ Len(imp) = 1
       /\ \A e \in FetchedSnapshots(calls) : e.created_at <= imp[1].created_at

----------------------------------------------------------------------------
\* The in-flight publishes that settle in this step.
SettledNow ==
  {i \in 1..Len(inflight) :
     /\ CallsOf(calls', "settled") # <<>>
     /\ inflight' = SubSeq(inflight, 1, i - 1) \o SubSeq(inflight, i + 1, Len(inflight))}

\* C23. Retry after transport failure: when the publish of a flushed delta is
\* rejected by every relay, the local changes it carried are still ahead of the
\* version marker (or in another publish in flight), so that a later flush of
\* the same engine exports them again.
C23_RetryAfterFailure ==
  [][\A i \in SettledNow :
       LET p == inflight[i]
           results == CallsOf(calls', "settled")[1].a.results
       IN (/\ p.kind = CRDT_UPDATE
           /\ \A r \in relays : results[r] = "rejected"
           /\ p.payload.hi > p.payload.lo) =>
            \/ lastExportedVersion' = NoVersion
            \/ lastExportedVersion'.local <= p.payload.lo
            \/ \E j \in 1..Len(inflight') :
                 /\ inflight'[j].kind = CRDT_UPDATE
                 /\ inflight'[j].payload.lo <= p.payload.lo
                 /\ inflight'[j].payload.hi >= p.payload.hi]_vars

----------------------------------------------------------------------------
\* The engine state that a presence publish must not touch.
PresenceFrame ==
  <<doc, pendingUpdates, batchTimer, timers, lastExportedVersion, lastSyncTimestamp,
    awareness, isConnected, subscriptionId, eventListeners>>

\* C24. Presence-publish failures are non-critical: the task that runs
\* updatePresence publishes one presence event, emits nothing and changes no
\* engine state; the task in which that publish settles, whatever the relays
\* answered, emits nothing, changes no engine state and resolves.
C24_PresencePublishNonCritical ==
  [][/\ CallsOf(calls', "updatePresence") # <<>> =>
          /\ Len(Published(calls')) = 1
          /\ Published(calls')[1].a.kind = PRESENCE
          /\ CallsOf(calls', "emit") = <<>>
          /\ UNCHANGED PresenceFrame
     /\ \A i \in SettledNow :
          inflight[i].kind = PRESENCE =>
            /\ CallsOf(calls', "emit") = <<>>
            /\ UNCHANGED PresenceFrame
            /\ calls'[Len(calls')] =
                 [op |-> "return", a |-> [kind |-> PRESENCE, promise |-> "resolved"]]]_vars

\* A presence publish that every relay rejected has settled, on an engine that
\* holds pending updates and a participant.
C24_Witness ==
  /\ \E i \in 1..Len(calls) :
       /\ calls[i].op = "settled"
       /\ calls[i].a.kind = PRESENCE
       /\ \A r \in relays : calls[i].a.results[r] = "rejected"
  /\ CallsOf(calls, "emit") = <<>>
  /\ pendingUpdates > 0
  /\ awareness # <<>>

----------------------------------------------------------------------------
HandledKinds == {CRDT_UPDATE, DOCUMENT_SNAPSHOT, PRESENCE}

\* C25. Unknown kinds are ignored: the task that receives an event whose kind
\* is none of CRDT_UPDATE, DOCUMENT_SNAPSHOT and PRESENCE makes no call at all
\* (no import, no ingest, no notification) and leaves the document,
\* lastSyncTimestamp and the awareness map as they were.
C25_UnknownKindsIgnored ==
  [][\A e \in DeliveredNow :
       e.kind \notin HandledKinds =>
         /\ calls' = <<>>
         /\ UNCHANGED <<doc, lastSyncTimestamp, awareness, pendingUpdates, batchTimer,
                        isConnected, notified>>]_vars

\* A subscription has handed over the PING, the PONG and the DOCUMENT_META
\* event, the last of them in this step, and nothing was taken in.
C25_Witness ==
  /\ \E i \in 1..Len(subs) : {EPing.id, EPong.id, EMeta.id} = subs[i].known
  /\ calls = <<>>
  /\ doc = EmptyDoc
  /\ awareness = <<>>

----------------------------------------------------------------------------
\* The identities in an awareness map.
Identities(m) == {m[i].pubkey : i \in 1..Len(m)}

\* C26. No presence eviction: no task removes an identity from the awareness
\* map; the set of identities only grows.
C26_NoPresenceEviction ==
  [][Identities(awareness) \subseteq Identities(awareness')]_vars

\* destroy() has just run and closed the subscription, and both participants
\* are still in the map, one of them with its oldest lastSeen.
C26_Witness ==
  /\ CallsOf(calls, "destroy") # <<>>
  /\ CallsOf(calls, "close") # <<>>
  /\ Identities(awareness) = {"p1", "p2"}
  /\ \E i \in 1..Len(awareness) : awareness[i].lastSeen = 1

----------------------------------------------------------------------------
\* A hex private key: 64 hex digits.
IsHexKey(chars) ==
  /\ Len(chars) = 2 * SecretKeyBytes
  /\ \A i \in 1..Len(chars) : IsHexDigit(chars[i])

\* A string that parses as an nsec or as a hex private key.
IsKeyFormat(privateKey) ==
  \/ privateKey.decodes /\ Len(privateKey.data) = SecretKeyBytes
  \/ IsHexKey(privateKey.chars)

\* C27. Key-format failure: an importKeys whose argument is neither an nsec nor
\* a hex private key throws 'Invalid private key format' and leaves the store
\* as it was; the key the store holds is always a well-formed hex key.
C27_KeyFormatFailure ==
  [][/\ \A i \in Positions(calls', "importKeys") :
          ~IsKeyFormat(calls'[i].a) =>
            /\ CallsOf(calls', "throw") =
                 <<[op |-> "throw", a |-> "Invalid private key format"]>>
            /\ store' = store
     /\ store'.keys # NoKeys => IsHexKey(store'.keys.privateKey)]_vars

----------------------------------------------------------------------------
\* The emits of `sync` with status "synced", with or without a snapshot flag.
SyncedEmits(cs) ==
  SelectSeq(cs, LAMBDA c : /\ c.op = "emit"
                           /\ c.a.ev = "sync"
                           /\ c.a.data.status = "synced")

\* C29. No premature `synced`: a task that runs while fetchHistory awaits one
\* of its queries (after `sync{syncing}`, before the fetched events are
\* applied) emits no `sync{synced}`, neither from oneose of the live
\* subscription nor for a snapshot delivered on it.
C29_NoPrematureSynced ==
  [][(/\ pc \in {"querySnapshots", "queryUpdates"}
      /\ pc' \in {"querySnapshots", "queryUpdates"}) =>
        SyncedEmits(calls') = <<>>]_vars

----------------------------------------------------------------------------
\* C30. Decode and import failures leave state untouched: the task that
\* receives, on a live subscription, an update or snapshot that cannot be
\* decoded or imported leaves the document, lastSyncTimestamp and the
\* notification counts as they were and emits nothing; one that receives a
\* presence event that cannot be parsed leaves the awareness map as it was and
\* emits nothing; and whatever failed before, a sound update of another signer
\* handed over later is imported and notified, a sound presence is stored.
C30_FailuresLeaveStateUntouched ==
  [][\A e \in DeliveredNow :
       /\ (e.fault # "none" /\ ~IsOwnEvent(e)) =>
            /\ CallsOf(calls', "emit") = <<>>
            /\ CallsOf(calls', "ingest") = <<>>
            /\ UNCHANGED <<doc, lastSyncTimestamp, awareness, notified, pendingUpdates,
                           batchTimer, isConnected, subscriptionId>>
       /\ (e.fault = "none" /\ ~IsOwnEvent(e) /\ e.kind = CRDT_UPDATE) =>
            /\ e.id \in doc'.remote
            /\ Len(Emits(calls', "update")) = 1
            /\ lastSyncTimestamp' >= e.created_at
       /\ (e.fault = "none" /\ ~IsOwnEvent(e) /\ e.kind = PRESENCE) =>
            /\ \E i \in 1..Len(awareness') : awareness'[i].pubkey = e.pubkey
            /\ Len(Emits(calls', "awareness")) = 1]_vars

\* One subscription has handed over every faulty event (update and snapshot,
\* decode and import, and the malformed presence) and then the sound update U1,
\* which this task imported and notified; nothing else ever reached the state.
C30_Witness ==
  /\ \E i \in 1..Len(subs) :
       {UBad.id, UInv.id, SBad.id, SDec.id, PBad.id, U1.id} = subs[i].known
  /\ Imported(calls) = <<U1>>
  /\ Len(Emits(calls, "update")) = 1
  /\ doc.remote = {U1.id}
  /\ lastSyncTimestamp = U1.created_at
  /\ awareness = <<>>

----------------------------------------------------------------------------
\* The probe events received in a task that answer the probe with this id.
Answers(cs, id) ==
  SelectSeq(CallsOf(cs, "probe"), LAMBDA c : AnswersPing(c.a) /\ c.a.pingId = id)

----------------------------------------------------------------------------
\* C22. Eventual delivery: with both engines connected to the room through a
\* relay that accepts every publish and hands every accepted event to every
\* subscriber, each local change committed on this engine is eventually in the
\* document of the other one, given that the batch timer fires, publishes
\* complete and accepted events are delivered.
C22_EventualDelivery ==
  \A k \in 1..MaxLocal : (doc.local >= k) ~> (OpOf(k) \in peer.doc.remote)

\* Every local change has reached the other engine, in more than one update
\* event, and this engine has been handed its own events back.
C22_Witness ==
  /\ doc.local = MaxLocal
  /\ \A k \in 1..MaxLocal : OpOf(k) \in peer.doc.remote
  /\ Cardinality(peer.known) >= 2
  /\ \E i \in 1..Len(subs) : subs[i].known # {}
  /\ doc.remote = {}

----------------------------------------------------------------------------
\* The events the history queries of a task returned, of both queries.
FetchedEvents(cs) ==
  IF CallsOf(cs, "querySync") = <<>>
    THEN {}
    ELSE FetchedSnapshots(cs) \cup FetchedUpdates(cs)

\* C31, as stated. Subscription window on (re)connect: the document
\* subscription of every connect() is bounded below by lastSyncTimestamp when
\* that is non-zero and unbounded otherwise, the presence subscription reaches
\* back 60 seconds, and a reconnect, whose subscription carries a bound,
\* obtains no document event older than that bound from its history queries
\* either.
C31_SubscriptionWindow ==
  [][/\ CallsOf(calls', "subscribeMany") # <<>> =>
          /\ calls'[1].a =
               [kinds |-> {CRDT_UPDATE, DOCUMENT_SNAPSHOT},
                since |-> IF lastSyncTimestamp = 0 THEN NoSince ELSE lastSyncTimestamp]
          /\ calls'[2].a = [kinds |-> {PRESENCE}, sinceAgo |-> 60]
     /\ \A e \in FetchedEvents(calls') :
          (subs # <<>> /\ subs[Len(subs)].since # NoSince) =>
            e.created_at >= subs[Len(subs)].since]_vars

\* C31, amended. The document subscription of every connect() is bounded below
\* by lastSyncTimestamp, the newest applied event's time, when that is non-zero
\* and unbounded otherwise, and it is the subscription that never hands over a
\* document event older than its bound; the presence subscription reaches back
\* 60 seconds.  The history queries of a connect() carry no lower bound.
C31_SubscriptionWindowOnly ==
  [][/\ CallsOf(calls', "subscribeMany") # <<>> =>
          /\ Len(CallsOf(calls', "subscribeMany")) = 2
          /\ calls'[1].a =
               [kinds |-> {CRDT_UPDATE, DOCUMENT_SNAPSHOT},
                since |-> IF lastSyncTimestamp = 0 THEN NoSince ELSE lastSyncTimestamp]
          /\ calls'[2].a = [kinds |-> {PRESENCE}, sinceAgo |-> 60]
          /\ subs'[Len(subs')].since = calls'[1].a.since
          /\ lastSyncTimestamp = MaxImportedAt(doc)
     /\ \A i \in 1..Len(subs) :
          Len(subs') = Len(subs) =>
            \A e \in AllEvents :
              (/\ e.id \in subs'[i].known \ subs[i].known
               /\ e.kind \in {CRDT_UPDATE, DOCUMENT_SNAPSHOT}) =>
                 e.created_at >= subs[i].since]_vars

\* A reconnect: the engine applied the snapshot of time 2, disconnected, and
\* has now subscribed again with the lower bound 2.
C31_Witness ==
  /\ pc = "connecting"
  /\ lastSyncTimestamp = S1.created_at
  /\ S1.id \in doc.remote
  /\ CallsOf(calls, "subscribeMany") # <<>>
  /\ calls[1].a.since = S1.created_at
  /\ subs[Len(subs)].since = S1.created_at

----------------------------------------------------------------------------
\* The ids of a document list, in order.
DocIdsOf(list) == [i \in 1..Len(list) |-> list[i].id]

\* Whether a sequence has no element twice.
NoRepeats(q) == \A i, j \in 1..Len(q) : i # j => q[i] # q[j]

\* Whether sequence p is sequence q with some elements left out, the order kept.
RECURSIVE IsSubsequence(_, _)
IsSubsequence(p, q) ==
  IF p = <<>>
    THEN TRUE
    ELSE IF q = <<>>
      THEN FALSE
      ELSE IF Head(p) = Head(q)
        THEN IsSubsequence(Tail(p), Tail(q))
        ELSE IsSubsequence(p, Tail(q))

\* C32. Recent-document index: after any addDocument or removeDocument the list
\* has at most 20 entries and no id twice.  addDocument(id) leaves id first,
\* with the new title, keeps the other entries in their order and drops at most
\* the last of them, and only when the list would exceed 20; for an id already
\* present the list does not grow.  removeDocument(id) removes the entry with
\* that id and nothing else.
C32_RecentDocuments ==
  [][LET adds == CallsOf(calls', "addDocument")
         removes == CallsOf(calls', "removeDocument")
         before == DocIdsOf(documents)
         after == DocIdsOf(documents')
         Ids(q) == {q[i] : i \in 1..Len(q)}
     IN /\ Len(documents') <= MaxDocuments
        /\ NoRepeats(after)
        /\ adds # <<>> =>
             LET id == adds[1].a.id
             IN /\ after[1] = id
                /\ documents'[1].title = adds[1].a.title
                /\ IsSubsequence(Tail(after), before)
                /\ \A i \in 2..Len(documents') :
                     \E j \in 1..Len(documents) : documents'[i] = documents[j]
                /\ id \in Ids(before) => Ids(after) = Ids(before)
                /\ id \notin Ids(before) =>
                     IF Len(before) < MaxDocuments
                       THEN Ids(after) = Ids(before) \cup {id}
                       ELSE Ids(after) =
                              (Ids(before) \ {before[Len(before)]}) \cup {id}
        /\ removes # <<>> =>
             LET id == removes[1].a
             IN /\ Ids(after) = Ids(before) \ {id}
                /\ IsSubsequence(after, before)
                /\ \A i \in 1..Len(documents') :
                     \E j \in 1..Len(documents) : documents'[i] = documents[j]]_vars

\* A full list of 20 had its fifth document added again, which moved it to the
\* front, and then a new document added, which dropped the oldest entry.
C32_Witness ==
  /\ Len(documents) = MaxDocuments
  /\ documents[1].id = MaxDocuments + 1
  /\ documents[2].id = 5
  /\ documents[2].title = "new"
  /\ documents[3].id = MaxDocuments
  /\ \A i \in 1..Len(documents) : documents[i].id # 1
  /\ CallsOf(calls, "addDocument") # <<>>

----------------------------------------------------------------------------
\* C33. isConnected only while subscribed: isConnected is true only while
\* subscriptionId is non-null; the continuation of a connect() whose
\* subscriptions were released by disconnect() or destroy() in the meantime
\* does not set isConnected, emits no `connected` and starts no history
\* reconciliation.
C33_ConnectedOnlyWhileSubscribed ==
  [][/\ isConnected' => subscriptionId' = "active"
     /\ Emits(calls', "connected") # <<>> => subscriptionId = "active"
     /\ (pc' = "querySnapshots" /\ pc # "querySnapshots") =>
          subscriptionId = "active"]_vars

----------------------------------------------------------------------------
\* C34. Single subscription pair: the engine never holds more than one open
\* pair of document and presence subscriptions, a connect() on an engine that
\* is already subscribed opens nothing, and no event is handed over by more
\* than one subscription.
C34_SingleSubscriptionPair ==
  /\ Len(subs) <= 1
  /\ \A e \in AllEvents :
       Cardinality({i \in 1..Len(subs) : e.id \in subs[i].known}) <= 1

----------------------------------------------------------------------------
\* C35. No re-broadcast of remote changes: the payload of every update the
\* engine publishes holds local operations only; operations imported from
\* other engines, by live events or by history reconciliation, are in none,
\* the first flush without a version marker included.
C35_NoRebroadcast ==
  \A i \in 1..Len(calls) :
    (calls[i].op = "publish" /\ calls[i].a.kind = CRDT_UPDATE) =>
      calls[i].a.payload.remote = {}

----------------------------------------------------------------------------
\* C36. Timer and buffer agree: between tasks the batch timer handle is set
\* exactly when the pending buffer is non-empty, and exactly then one timeout
\* is scheduled with the host and none otherwise, whatever the interleaving of
\* local edits, checkouts, timer expiry, imports, disconnect() and destroy();
\* so a queued edit always has a timer that will flush it.
C36_TimerBufferAgree ==
  /\ batchTimer <=> pendingUpdates > 0
  /\ timers = IF batchTimer THEN 1 ELSE 0

\* After a flush, an import and a destroy(), two more local edits are queued
\* behind one armed timer.
C36_Witness ==
  /\ pendingUpdates = 2
  /\ batchTimer
  /\ timers = 1
  /\ lastExportedVersion # NoVersion
  /\ doc.remote # {}
  /\ hist.destroyed

----------------------------------------------------------------------------
\* The local version a marker stands for.
MarkerLocal(v) == IF v = NoVersion THEN 0 ELSE v.local

\* C37. Flush deltas do not overlap: every flush exports the local changes
\* from where the previous flush ended (from the beginning for the first) up
\* to all changes made so far, and moves the marker to that end; nothing else
\* moves the marker, and local changes are only ever added.  The ranges of
\* successive flushes are therefore contiguous and disjoint, also when a flush
\* starts while the publish of the previous one is in flight.
C37_FlushDeltasDisjoint ==
  [][LET exports == CallsOf(calls', "export")
     IN /\ doc'.local >= doc.local
        /\ MarkerLocal(lastExportedVersion) <= doc.local
        /\ Len(exports) <= 1
        /\ exports = <<>> => lastExportedVersion' = lastExportedVersion
        /\ exports # <<>> =>
             LET update == exports[1].a.update
             IN /\ update.lo = MarkerLocal(lastExportedVersion)
                /\ update.hi = doc.local
                /\ doc'.local = doc.local
                /\ MarkerLocal(lastExportedVersion') = update.hi
                /\ \A i \in 1..Len(inflight) :
                     inflight[i].kind = CRDT_UPDATE =>
                       inflight[i].payload.hi <= update.lo]_vars

\* A second flush has started while the publish of the first is in flight: the
\* first carries local change 1, the second local change 2 and nothing else
\* local.
C37_Witness ==
  /\ Len(inflight) = 2
  /\ inflight[1].payload.lo = 0
  /\ inflight[1].payload.hi = 1
  /\ inflight[2].payload.lo = 1
  /\ inflight[2].payload.hi = 2
  /\ CallsOf(calls, "export") # <<>>

====
